---------------------------- MODULE Spec2Model ----------------------------
(***************************************************************************)
(* A model of the HR payroll portal: the payroll engine (PayrollAgent in   *)
(* services/payroll_agent.py), the service that wraps it with the database *)
(* (PayrollService, AuthService) and the access checks of the routes.      *)
(*                                                                         *)
(* Text is a sequence of one-character strings, so that lower(), the       *)
(* substring test `in` and str() are computed rather than assumed.         *)
(* A Python float is an IEEE double: the arithmetic of calculate_payroll,  *)
(* float(), round() and str() are computed on the 53 bits of a double,     *)
(* rounding where the processor rounds, so that 0.1 + 0.2 is not 0.3 here   *)
(* either. An int that only enters arithmetic with floats is kept as the   *)
(* double of the same value; ints are below 2^31 and floats between 1e-30   *)
(* and 1e30 in size (nan and the infinities beside them).                   *)
(***************************************************************************)
EXTENDS Integers, Sequences, FiniteSets, TLC

(***************************************************************************)
(* Bounds of the model.                                                    *)
(***************************************************************************)
MaxNow == 1
MaxRequestNow == 0
MaxBatches == 2
MaxPolicies == 1
MaxPayslipId == 3
MaxPolicyCalls == 2

(***************************************************************************)
(* Text: str.lower(), `a in b`, str(int).                                  *)
(***************************************************************************)
UpperChars == <<"A","B","C","D","E","F","G","H","I","J","K","L","M",
                "N","O","P","Q","R","S","T","U","V","W","X","Y","Z">>
LowerChars == <<"a","b","c","d","e","f","g","h","i","j","k","l","m",
                "n","o","p","q","r","s","t","u","v","w","x","y","z">>
DigitChars == <<"0","1","2","3","4","5","6","7","8","9">>

LowerOf ==
    [c \in {UpperChars[i] : i \in 1..Len(UpperChars)} |->
        LowerChars[CHOOSE i \in 1..Len(UpperChars) : UpperChars[i] = c]]

\* str.lower()
lower(s) == [i \in 1..Len(s) |-> IF s[i] \in DOMAIN LowerOf THEN LowerOf[s[i]] ELSE s[i]]

\* Python's `sub in s` on strings.
Contains(sub, s) ==
    \E i \in 0..(Len(s) - Len(sub)) : SubSeq(s, i + 1, i + Len(sub)) = sub

\* str(n) of an int.
RECURSIVE NatToStr(_)
NatToStr(n) ==
    IF n < 10 THEN <<DigitChars[n + 1]>>
    ELSE NatToStr(n \div 10) \o <<DigitChars[(n % 10) + 1]>>
IntToStr(n) == IF n < 0 THEN <<"-">> \o NatToStr(-n) ELSE NatToStr(n)

DigitSet == {DigitChars[i] : i \in 1..Len(DigitChars)}
\* The ASCII characters that str.isspace(), str.strip() and the pattern \s
\* take for white space, and the ones float() and int() skip around a
\* numeral (those of C's isspace). A control character that has no escape in
\* this notation is written as its Python escape and is one character of a
\* text.
WhiteSpace == {" ", "\t", "\n", "\r", "\f", "\\x0b", "\\x1c", "\\x1d", "\\x1e", "\\x1f"}
AsciiSpace == {" ", "\t", "\n", "\r", "\f", "\\x0b"}

RECURSIVE skip_while(_, _, _)
skip_while(text, i, chars) ==
    IF i <= Len(text) /\ text[i] \in chars THEN skip_while(text, i + 1, chars) ELSE i

\* s without the characters of chars at its ends.
strip_chars(s, chars) ==
    LET RECURSIVE skip_back(_)
        skip_back(i) == IF i >= 1 /\ s[i] \in chars THEN skip_back(i - 1) ELSE i
    IN  SubSeq(s, skip_while(s, 1, chars), skip_back(Len(s)))

\* str.strip()
strip(s) == strip_chars(s, WhiteSpace)

\* int(digits) for a text of decimal digits.
RECURSIVE StrToInt(_)
StrToInt(digits) ==
    IF digits = <<>> THEN 0
    ELSE 10 * StrToInt(SubSeq(digits, 1, Len(digits) - 1))
         + ((CHOOSE i \in 1..10 : DigitChars[i] = digits[Len(digits)]) - 1)

\* The position of the first c in s, or 0.
IndexOf(s, c) ==
    IF \E i \in 1..Len(s) : s[i] = c
    THEN CHOOSE i \in 1..Len(s) : s[i] = c /\ \A j \in 1..(i - 1) : s[j] # c
    ELSE 0

\* str.replace(old, new) for a one-character old.
Replace(s, old, new) == [i \in 1..Len(s) |-> IF s[i] = old THEN new ELSE s[i]]

(***************************************************************************)
(* Naturals of any size: a sequence of 15-bit limbs, the least significant *)
(* first and the last one non-zero; <<>> is 0.                             *)
(***************************************************************************)
Base == 2 ^ 15

Max(a, b) == IF a < b THEN b ELSE a
Min(a, b) == IF b < a THEN b ELSE a

\* The number of bits of k >= 0.
RECURSIVE Bits(_)
Bits(k) ==
    IF k >= 256 THEN 8 + Bits(k \div 256)
    ELSE IF k >= 16 THEN 4 + Bits(k \div 16)
    ELSE IF k >= 4 THEN 2 + Bits(k \div 4)
    ELSE IF k >= 2 THEN 2 ELSE k

\* The number of zero bits at the low end of k > 0.
RECURSIVE LowZeros(_)
LowZeros(k) ==
    IF k % 256 = 0 THEN 8 + LowZeros(k \div 256)
    ELSE IF k % 16 = 0 THEN 4 + LowZeros(k \div 16)
    ELSE IF k % 4 = 0 THEN 2 + LowZeros(k \div 4)
    ELSE IF k % 2 = 0 THEN 1 ELSE 0

RECURSIVE BigTrim(_)
BigTrim(n) ==
    IF n # <<>> /\ n[Len(n)] = 0 THEN BigTrim(SubSeq(n, 1, Len(n) - 1)) ELSE n

\* The limbs of 0 <= k < 2^31, and the number a few limbs stand for.
BigOf(k) == BigTrim(<<k % Base, (k \div Base) % Base, k \div (Base * Base)>>)
IntOf(n) ==
    IF n = <<>> THEN 0
    ELSE IF Len(n) = 1 THEN n[1]
    ELSE IF Len(n) = 2 THEN n[1] + Base * n[2]
    ELSE n[1] + Base * (n[2] + Base * n[3])

LimbAt(n, i) == IF i <= Len(n) THEN n[i] ELSE 0
BigBits(n) == IF n = <<>> THEN 0 ELSE 15 * (Len(n) - 1) + Bits(n[Len(n)])

RECURSIVE BigLowZeros(_, _)
BigLowZeros(n, i) == IF n[i] = 0 THEN 15 + BigLowZeros(n, i + 1) ELSE LowZeros(n[i])

\* -1, 0 or 1 as a is below, equal to or above b.
RECURSIVE BigCmpFrom(_, _, _)
BigCmpFrom(a, b, i) ==
    IF i = 0 THEN 0
    ELSE IF a[i] # b[i] THEN (IF a[i] < b[i] THEN -1 ELSE 1)
    ELSE BigCmpFrom(a, b, i - 1)
BigCmp(a, b) ==
    IF Len(a) # Len(b) THEN (IF Len(a) < Len(b) THEN -1 ELSE 1)
    ELSE BigCmpFrom(a, b, Len(a))

RECURSIVE BigAddFrom(_, _, _, _)
BigAddFrom(a, b, i, carry) ==
    IF i > Len(a) /\ i > Len(b) THEN (IF carry = 0 THEN <<>> ELSE <<carry>>)
    ELSE <<(LimbAt(a, i) + LimbAt(b, i) + carry) % Base>>
         \o BigAddFrom(a, b, i + 1, (LimbAt(a, i) + LimbAt(b, i) + carry) \div Base)
BigAdd(a, b) == BigAddFrom(a, b, 1, 0)

\* a - b for a >= b.
RECURSIVE BigSubFrom(_, _, _, _)
BigSubFrom(a, b, i, borrow) ==
    IF i > Len(a) THEN <<>>
    ELSE <<(a[i] - LimbAt(b, i) - borrow + Base) % Base>>
         \o BigSubFrom(a, b, i + 1, IF a[i] - LimbAt(b, i) - borrow < 0 THEN 1 ELSE 0)
BigSub(a, b) == BigTrim(BigSubFrom(a, b, 1, 0))

\* n * c + carry for 0 <= c <= Base and 0 <= carry < Base.
RECURSIVE BigTimesFrom(_, _, _, _)
BigTimesFrom(n, c, i, carry) ==
    IF i > Len(n) THEN (IF carry = 0 THEN <<>> ELSE <<carry>>)
    ELSE <<(n[i] * c + carry) % Base>>
         \o BigTimesFrom(n, c, i + 1, (n[i] * c + carry) \div Base)
BigTimes(n, c, carry) == BigTrim(BigTimesFrom(n, c, 1, carry))

RECURSIVE BigMulFrom(_, _, _)
BigMulFrom(a, b, j) ==
    IF j > Len(b) THEN <<>>
    ELSE BigAdd(BigTimesFrom(a, b[j], 1, 0), <<0>> \o BigMulFrom(a, b, j + 1))
BigMul(a, b) == BigTrim(BigMulFrom(a, b, 1))

\* <<n \div c, n % c>> for 0 < c <= Base.
RECURSIVE BigOverFrom(_, _, _, _, _)
BigOverFrom(n, c, i, r, q) ==
    IF i = 0 THEN <<BigTrim(q), r>>
    ELSE BigOverFrom(n, c, i - 1, (r * Base + n[i]) % c, <<(r * Base + n[i]) \div c>> \o q)
BigOver(n, c) == BigOverFrom(n, c, Len(n), 0, <<>>)

\* n * 2^k, and <<n \div 2^k, whether a one bit was shifted out>>.
BigShl(n, k) ==
    IF n = <<>> \/ k = 0 THEN n
    ELSE [i \in 1..(k \div 15) |-> 0] \o BigTimesFrom(n, 2 ^ (k % 15), 1, 0)
BigShr(n, k) ==
    IF k \div 15 >= Len(n) THEN <<<<>>, n # <<>>>>
    ELSE <<BigOver(SubSeq(n, (k \div 15) + 1, Len(n)), 2 ^ (k % 15))[1],
           \/ BigOver(SubSeq(n, (k \div 15) + 1, Len(n)), 2 ^ (k % 15))[2] # 0
           \/ \E i \in 1..(k \div 15) : n[i] # 0>>

\* <<n \div d, n % d>> for d > 0: long division, a limb of the quotient at a
\* time, estimated from the leading limbs and corrected downwards.
RECURSIVE BigDigitFit(_, _, _)
BigDigitFit(r, d, q) ==
    IF BigCmp(BigTimes(d, q, 0), r) > 0 THEN BigDigitFit(r, d, q - 1) ELSE q
BigDigitGuess(r, d) ==
    Min(Base - 1, (LimbAt(r, Len(d) + 1) * Base + LimbAt(r, Len(d))) \div d[Len(d)])
RECURSIVE BigDivModFrom(_, _, _, _, _)
RECURSIVE BigDivModTake(_, _, _, _, _, _)
BigDivModTake(n, d, i, r, q, digit) ==
    BigDivModFrom(n, d, i - 1, BigSub(r, BigTimes(d, digit, 0)), <<digit>> \o q)
BigDivModStep(n, d, i, r, q) ==
    BigDivModTake(n, d, i, r, q, BigDigitFit(r, d, BigDigitGuess(r, d)))
BigDivModFrom(n, d, i, r, q) ==
    IF i = 0 THEN <<BigTrim(q), r>> ELSE BigDivModStep(n, d, i, BigTrim(<<n[i]>> \o r), q)
\* The divisor is scaled to a full leading limb, the remainder scaled back.
BigDivModBy(n, d) == BigDivModFrom(n, d, Len(n), <<>>, <<>>)
BigUnscaled(dm, sh) == <<dm[1], BigShr(dm[2], sh)[1]>>
BigDivMod(n, d) ==
    IF Len(d) = 1 THEN <<BigOver(n, d[1])[1], BigOf(BigOver(n, d[1])[2])>>
    ELSE BigUnscaled(BigDivModBy(BigShl(n, 15 - Bits(d[Len(d)])),
                                 BigShl(d, 15 - Bits(d[Len(d)]))),
                     15 - Bits(d[Len(d)]))

\* n * 10^k, and <<n \div 10^k, whether the division (or one before it) left
\* a remainder>>.
RECURSIVE BigTimesPow10(_, _)
BigTimesPow10(n, k) ==
    IF k = 0 \/ n = <<>> THEN n
    ELSE IF k >= 4 THEN BigTimesPow10(BigTimes(n, 10000, 0), k - 4)
    ELSE BigTimes(n, 10 ^ k, 0)
RECURSIVE BigOverPow10(_, _, _)
RECURSIVE BigOverPow10Next(_, _, _)
BigOverPow10Next(dm, k, sticky) == BigOverPow10(dm[1], k, sticky \/ dm[2] # 0)
BigOverPow10(n, k, sticky) ==
    IF k = 0 THEN <<n, sticky>>
    ELSE BigOverPow10Next(BigOver(n, 10 ^ Min(k, 4)), k - Min(k, 4), sticky)

\* The decimal digits of n > 0, and the natural a text of digits stands for.
RECURSIVE BigDigits(_)
BigDigits(n) ==
    IF n = <<>> THEN <<>>
    ELSE BigDigits(BigOver(n, 10)[1]) \o <<DigitChars[BigOver(n, 10)[2] + 1]>>
RECURSIVE BigOfDigits(_, _, _)
BigOfDigits(digits, i, n) ==
    IF i > Len(digits) THEN n
    ELSE BigOfDigits(digits, i + 1,
             BigTimes(n, 10, (CHOOSE d \in 1..10 : DigitChars[d] = digits[i]) - 1))

(***************************************************************************)
(* Floats: IEEE doubles, every operation rounded to 53 bits (to nearest,   *)
(* ties to even) as the processor rounds it. A float is <<s, m, e>>, the   *)
(* value s * m * 2^e with s the sign (1 or -1) and m a natural of at most  *)
(* 53 bits; a whole number below 2^53 has e = 0, every other number an odd *)
(* m. Zero has m = <<>> and e = 0 (and a sign), the infinities have m =    *)
(* <<>> and e = 1, nan has s = 0.                                          *)
(***************************************************************************)
Nan == <<0, <<>>, 0>>
Inf == <<1, <<>>, 1>>
NegInf == <<-1, <<>>, 1>>
Zero(s) == <<s, <<>>, 0>>
IsNan(x) == x[1] = 0
IsInf(x) == x[1] # 0 /\ x[2] = <<>> /\ x[3] = 1
IsFinite(x) == x[1] # 0 /\ (x[2] # <<>> \/ x[3] = 0)
IsZero(x) == x[1] # 0 /\ x[2] = <<>> /\ x[3] = 0
\* -1, 0 or 1: the sign of a number that is not nan.
Sgn(x) == IF IsZero(x) THEN 0 ELSE x[1]
Neg(x) == <<-x[1], x[2], x[3]>>

\* float(n) of an int below 2^31 in size.
FromInt(n) == IF n < 0 THEN <<-1, BigOf(-n), 0>> ELSE <<1, BigOf(n), 0>>

\* The number s * m * 2^e for m of at most 53 bits (or 2^53), as it is kept.
Finite(s, m, e) ==
    IF m = <<>> THEN Zero(s)
    ELSE IF BigBits(m) + e > 1024 THEN <<s, <<>>, 1>>
    ELSE IF e = 0 /\ BigBits(m) <= 53 THEN <<s, m, 0>>
    ELSE IF e > 0 /\ BigBits(m) + e <= 53 THEN <<s, BigShl(m, e), 0>>
    ELSE IF e < 0 /\ BigLowZeros(m, 1) >= -e THEN <<s, BigShr(m, -e)[1], 0>>
    ELSE <<s, BigShr(m, BigLowZeros(m, 1))[1], e + BigLowZeros(m, 1)>>

\* The double nearest to s * (q + f) * 2^e, ties to even, where 0 <= f < 1 and
\* sticky tells whether f > 0 (q then has 55 bits or more). A number below
\* 2^-1022 keeps fewer bits: none below 2^-1074.
RoundHalf(h, sticky) ==
    IF h[1] # <<>> /\ h[1][1] % 2 = 1 /\ (h[2] \/ sticky \/ h[1][1] % 4 = 3)
    THEN BigAdd(BigOver(h[1], 2)[1], <<1>>)
    ELSE BigOver(h[1], 2)[1]
RoundDrop(s, q, sticky, e, drop) ==
    Finite(s, IF drop <= 0 THEN q ELSE RoundHalf(BigShr(q, drop - 1), sticky),
           IF drop <= 0 THEN e ELSE e + drop)
RoundBig(s, q, sticky, e) == RoundDrop(s, q, sticky, e, Max(BigBits(q) - 53, (-1074) - e))

\* x + y
\* sx * a * 2^e + sy * b * 2^e
FloatSum(sx, a, sy, b, e) ==
    IF sx # sy /\ BigCmp(a, b) = 0 THEN Zero(1)
    ELSE RoundBig(IF sx = sy \/ BigCmp(a, b) > 0 THEN sx ELSE sy,
                  IF sx = sy THEN BigAdd(a, b)
                  ELSE IF BigCmp(a, b) > 0 THEN BigSub(a, b) ELSE BigSub(b, a),
                  FALSE, e)
FloatAdd(x, y) ==
    IF IsNan(x) \/ IsNan(y) THEN Nan
    ELSE IF IsInf(x) THEN (IF IsInf(y) /\ x # y THEN Nan ELSE x)
    ELSE IF IsInf(y) THEN y
    ELSE IF x[2] = <<>>
    THEN (IF y[2] = <<>> THEN Zero(IF x[1] = -1 /\ y[1] = -1 THEN -1 ELSE 1) ELSE y)
    ELSE IF y[2] = <<>> THEN x
    ELSE IF x[3] = 0 /\ y[3] = 0 /\ Len(x[2]) <= 2 /\ Len(y[2]) <= 2
    THEN FromInt(x[1] * IntOf(x[2]) + y[1] * IntOf(y[2]))
    ELSE IF BigBits(x[2]) + x[3] > BigBits(y[2]) + y[3] + 64 THEN x
    ELSE IF BigBits(y[2]) + y[3] > BigBits(x[2]) + x[3] + 64 THEN y
    ELSE FloatSum(x[1], BigShl(x[2], x[3] - Min(x[3], y[3])),
                  y[1], BigShl(y[2], y[3] - Min(x[3], y[3])), Min(x[3], y[3]))

\* x - y
FloatSub(x, y) == FloatAdd(x, Neg(y))

\* x * y
FloatMul(x, y) ==
    IF IsNan(x) \/ IsNan(y) THEN Nan
    ELSE IF IsInf(x) \/ IsInf(y)
    THEN (IF IsZero(x) \/ IsZero(y) THEN Nan ELSE <<x[1] * y[1], <<>>, 1>>)
    ELSE IF x[2] = <<>> \/ y[2] = <<>> THEN Zero(x[1] * y[1])
    ELSE IF x[3] = 0 /\ y[3] = 0 /\ Len(x[2]) = 1 /\ Len(y[2]) = 1
    THEN FromInt(x[1] * y[1] * x[2][1] * y[2][1])
    ELSE RoundBig(x[1] * y[1], BigMul(x[2], y[2]), FALSE, x[3] + y[3])

\* x / y for y # 0 (a division by zero raises ZeroDivisionError).
FloatQuotient(s, dm, e) == RoundBig(s, dm[1], dm[2] # <<>>, e)
FloatDivShifted(x, y, k) ==
    FloatQuotient(x[1] * y[1], BigDivMod(BigShl(x[2], k), y[2]), x[3] - y[3] - k)
FloatDiv(x, y) ==
    IF IsNan(x) \/ IsNan(y) THEN Nan
    ELSE IF IsInf(x) THEN (IF IsInf(y) THEN Nan ELSE <<x[1] * y[1], <<>>, 1>>)
    ELSE IF IsInf(y) \/ x[2] = <<>> THEN Zero(x[1] * y[1])
    ELSE FloatDivShifted(x, y, Max(0, 55 + BigBits(y[2]) - BigBits(x[2])))

\* -1, 0 or 1 as x is below, equal to or above y; neither is nan.
TopBit(z) == BigBits(z[2]) + z[3]
FloatCmp(x, y) ==
    IF Sgn(x) # Sgn(y) THEN (IF Sgn(x) < Sgn(y) THEN -1 ELSE 1)
    ELSE IF Sgn(x) = 0 THEN 0
    ELSE IF IsInf(x) THEN (IF IsInf(y) THEN 0 ELSE x[1])
    ELSE IF IsInf(y) THEN -y[1]
    ELSE IF TopBit(x) # TopBit(y) THEN (IF TopBit(x) < TopBit(y) THEN -x[1] ELSE x[1])
    ELSE x[1] * BigCmp(BigShl(x[2], x[3] - Min(x[3], y[3])),
                       BigShl(y[2], y[3] - Min(x[3], y[3])))

\* x < y, x <= y and x == y: false as soon as one side is nan.
FloatLt(x, y) == ~IsNan(x) /\ ~IsNan(y) /\ FloatCmp(x, y) < 0
FloatLe(x, y) == ~IsNan(x) /\ ~IsNan(y) /\ FloatCmp(x, y) <= 0
FloatEq(x, y) == ~IsNan(x) /\ ~IsNan(y) /\ FloatCmp(x, y) = 0
\* min(a, b) of Python: b only when b < a.
FloatMin(a, b) == IF FloatLt(b, a) THEN b ELSE a

\* The double nearest to s * n * 10^scale: float() of a numeral.
FromQuotient(s, dm, k) == RoundBig(s, dm[1], dm[2], -k)
\* The bits by which n is shifted up before it is divided by 10^-scale.
DecimalShift(n, scale) ==
    IF scale >= 0 THEN 0
    ELSE Max(0, 57 + ((332193 * (-scale)) \div 100000) - BigBits(n))
FromDecimal(s, n, scale) ==
    IF n = <<>> THEN Zero(s)
    ELSE IF scale >= 0 /\ BigBits(n) + 3 * scale > 1100 THEN <<s, <<>>, 1>>
    ELSE IF scale < 0 /\ BigBits(n) + 1100 < 3 * (-scale) THEN Zero(s)
    ELSE FromQuotient(s,
                      IF scale >= 0 THEN <<BigTimesPow10(n, scale), FALSE>>
                      ELSE BigOverPow10(BigShl(n, DecimalShift(n, scale)), -scale, FALSE),
                      DecimalShift(n, scale))

\* |x| * 10^k for a number x # 0: <<the whole part, -1, 0 or 1 as the rest is
\* below, equal to or above one half>>.
HalvedParts(h) ==
    <<BigOver(h[1], 2)[1], IF h[1] = <<>> \/ h[1][1] % 2 = 0 THEN -1 ELSE IF h[2] THEN 1 ELSE 0>>
DividedParts(dm, d) == <<dm[1], BigCmp(BigShl(dm[2], 1), d)>>
PartsOver(n, d) == DividedParts(BigDivMod(n, d), d)
DecimalParts(x, k) ==
    IF k >= 0
    THEN (IF x[3] >= 0 THEN <<BigTimesPow10(BigShl(x[2], x[3]), k), -1>>
          ELSE HalvedParts(BigShr(BigTimesPow10(x[2], k), (-x[3]) - 1)))
    ELSE PartsOver(BigShl(x[2], Max(x[3], 0)),
                   BigShl(BigTimesPow10(<<1>>, -k), Max(-x[3], 0)))

\* The whole number nearest to |x| * 10^k, ties to even.
Nearest(parts) ==
    IF parts[2] > 0 \/ (parts[2] = 0 /\ parts[1] # <<>> /\ parts[1][1] % 2 = 1)
    THEN BigAdd(parts[1], <<1>>) ELSE parts[1]
DecimalRound(x, k) == Nearest(DecimalParts(x, k))

\* round(x, ndigits) for ndigits >= 0: the decimal nearest to x, ties to even,
\* and of that the nearest double; nan, the infinities and whole numbers stay.
round(x, ndigits) ==
    IF ~IsFinite(x) \/ x[3] >= 0 THEN x
    ELSE FromDecimal(x[1], DecimalRound(x, ndigits), -ndigits)

\* n without the zeros that end its numeral: <<n / 10^z, z>>.
RECURSIVE BigStripZeros(_, _)
BigStripZeros(n, z) ==
    IF n = <<>> \/ BigOver(n, 10)[2] # 0 THEN <<n, z>>
    ELSE BigStripZeros(BigOver(n, 10)[1], z + 1)

\* The shortest decimal that float() reads back as |x|, x a number that is not
\* zero, and of these the one nearest to x: <<n, q>> for n * 10^q. The search
\* goes from one digit to more of them.
\* The first of the candidates that float() reads back as |x|, or <<>>.
RECURSIVE FirstReading(_, _, _)
FirstReading(x, candidates, q) ==
    IF candidates = <<>> THEN <<>>
    ELSE IF Head(candidates) # <<>> /\ FromDecimal(1, Head(candidates), q) = <<1, x[2], x[3]>>
    THEN Head(candidates)
    ELSE FirstReading(x, Tail(candidates), q)
\* The nearest whole number first, then the one on the other side of the number.
Candidates(near, lo) == <<near, IF near = lo THEN BigAdd(lo, <<1>>) ELSE lo>>
RECURSIVE ShortestFrom(_, _)
RECURSIVE ShortestFound(_, _, _)
ShortestFound(x, q, n) == IF n = <<>> THEN ShortestFrom(x, q - 1) ELSE <<n, q>>
ShortestAmong(x, q, parts) ==
    ShortestFound(x, q, FirstReading(x, Candidates(Nearest(parts), parts[1]), q))
ShortestFrom(x, q) == ShortestAmong(x, q, DecimalParts(x, -q))
Shortest(x) ==
    IF x[3] = 0 THEN BigStripZeros(x[2], 0)
    ELSE ShortestFrom(x, (((BigBits(x[2]) + x[3]) * 30103) \div 100000) + 1)

\* int(x) of a number: the whole part (below 2^31 in size).
Trunc(x) == x[1] * IntOf(IF x[3] >= 0 THEN BigShl(x[2], x[3]) ELSE BigShr(x[2], -x[3])[1])

\* n zeros.
Zeros(n) == [i \in 1..n |-> "0"]

\* repr(x) and str(x) of a float: the shortest digits, with an exponent when
\* the point lies more than 16 places after the first digit or more than 3
\* before it.
NonFiniteText(x) ==
    IF IsNan(x) THEN <<"n","a","n">>
    ELSE IF x[1] < 0 THEN <<"-","i","n","f">> ELSE <<"i","n","f">>
FloatToStr(x) ==
    LET exponent(e) ==
            (IF e < 0 THEN <<"e", "-">> ELSE <<"e", "+">>)
                \o (IF e < 10 /\ e > -10 THEN <<"0">> ELSE <<>>)
                \o BigDigits(BigOf(IF e < 0 THEN -e ELSE e))
        placed(digits, decpt) ==
            IF decpt > 16 \/ decpt < -3
            THEN <<digits[1]>>
                 \o (IF Len(digits) > 1 THEN <<".">> \o Tail(digits) ELSE <<>>)
                 \o exponent(decpt - 1)
            ELSE IF decpt >= Len(digits)
            THEN digits \o Zeros(decpt - Len(digits)) \o <<".", "0">>
            ELSE IF decpt > 0
            THEN SubSeq(digits, 1, decpt) \o <<".">> \o SubSeq(digits, decpt + 1, Len(digits))
            ELSE <<"0", ".">> \o Zeros(-decpt) \o digits
        numeral(s) == placed(BigDigits(s[1]), Len(BigDigits(s[1])) + s[2])
    IN  IF ~IsFinite(x) THEN NonFiniteText(x)
        ELSE (IF x[1] < 0 THEN <<"-">> ELSE <<>>)
             \o (IF IsZero(x) THEN <<"0",".","0">> ELSE numeral(Shortest(x)))

\* The float a literal such as 0.0075 denotes: Dec(75, 4).
Dec(n, places) == FromDecimal(IF n < 0 THEN -1 ELSE 1, BigOf(IF n < 0 THEN -n ELSE n), -places)

(***************************************************************************)
(* Spreadsheet cells and their conversions.                                *)
(***************************************************************************)
IntCell(n) == [t |-> "int", v |-> n]
StrCell(s) == [t |-> "str", v |-> s]
FloatCell(x) == [t |-> "float", v |-> x]
BoolCell(b) == [t |-> "bool", v |-> b]
\* An int of 2^30 or more in size, kept as the double of the same value.
LongCell(x) == [t |-> "long", v |-> x]
\* A blank cell: the float nan.
NaN == [t |-> "nan", v |-> Nan]

\* The digits of a numeral: decimal digits, single underscores between them.
IsDigitPart(s) ==
    /\ s # <<>>
    /\ s[1] \in DigitSet /\ s[Len(s)] \in DigitSet
    /\ \A i \in 1..Len(s) : s[i] \in DigitSet \cup {"_"}
    /\ \A i \in 1..(Len(s) - 1) : ~(s[i] = "_" /\ s[i + 1] = "_")
DigitsOf(s) == SelectSeq(s, LAMBDA c : c \in DigitSet)

Unsigned(s) == IF s # <<>> /\ s[1] \in {"+", "-"} THEN Tail(s) ELSE s
SignOf(s) == IF s # <<>> /\ s[1] = "-" THEN -1 ELSE 1

\* The exponent a text of digits stands for; one of more than four digits is
\* beyond every float either way.
ExponentOf(digits) ==
    LET significant == SubSeq(digits, skip_while(digits, 1, {"0"}), Len(digits))
    IN  IF Len(significant) > 4 THEN 99999 ELSE StrToInt(significant)

\* float(text): the white space of C stripped, an optional sign, then inf,
\* infinity or nan in any case, or a decimal numeral with an optional
\* fraction and an optional exponent, rounded to the nearest double.
\* [ok |-> FALSE] is the ValueError.
NumeralOf(sign, whole, fraction, dotted, exponent, has_exponent) ==
    IF /\ \/ IsDigitPart(whole) /\ (fraction = <<>> \/ IsDigitPart(fraction))
          \/ whole = <<>> /\ dotted /\ IsDigitPart(fraction)
       /\ (~has_exponent \/ IsDigitPart(Unsigned(exponent)))
    THEN [ ok |-> TRUE,
           v |-> FromDecimal(sign,
                     BigOfDigits(DigitsOf(whole) \o DigitsOf(fraction), 1, <<>>),
                     SignOf(exponent) * ExponentOf(DigitsOf(Unsigned(exponent)))
                         - Len(DigitsOf(fraction))) ]
    ELSE [ok |-> FALSE, v |-> Nan]
NumeralDotted(sign, mantissa, dot, exponent, has_exponent) ==
    NumeralOf(sign,
              IF dot = 0 THEN mantissa ELSE SubSeq(mantissa, 1, dot - 1),
              IF dot = 0 THEN <<>> ELSE SubSeq(mantissa, dot + 1, Len(mantissa)),
              dot # 0, exponent, has_exponent)
NumeralParts(sign, mantissa, exponent, has_exponent) ==
    NumeralDotted(sign, mantissa, IndexOf(mantissa, "."), exponent, has_exponent)
NumeralSplit(sign, body, e) ==
    NumeralParts(sign,
                 IF e = 0 THEN body ELSE SubSeq(body, 1, e - 1),
                 IF e = 0 THEN <<>> ELSE SubSeq(body, e + 1, Len(body)),
                 e # 0)
NumeralParsed(sign, body) ==
    IF body \in {<<"i","n","f">>, <<"i","n","f","i","n","i","t","y">>}
    THEN [ok |-> TRUE, v |-> IF sign = 1 THEN Inf ELSE NegInf]
    ELSE IF body = <<"n","a","n">> THEN [ok |-> TRUE, v |-> Nan]
    ELSE NumeralSplit(sign, body, IndexOf(body, "e"))
NumeralStripped(t) == NumeralParsed(SignOf(t), lower(Unsigned(t)))
float_of_text(text) == NumeralStripped(strip_chars(text, AsciiSpace))

\* float(cell) succeeds on every number, nan included, and on numeral text.
CanFloat(c) == c.t \in {"int", "long", "float", "nan", "bool"} \/ float_of_text(c.v).ok
Float(c) ==
    IF c.t = "int" THEN FromInt(c.v)
    ELSE IF c.t = "str" THEN float_of_text(c.v).v
    ELSE IF c.t = "bool" THEN FromInt(IF c.v THEN 1 ELSE 0)
    ELSE c.v

\* int(text): the white space of C stripped, an optional sign and decimal digits.
IntegerStripped(t) ==
    IF IsDigitPart(Unsigned(t))
    THEN [ok |-> TRUE, v |-> SignOf(t) * StrToInt(DigitsOf(t))]
    ELSE [ok |-> FALSE, v |-> 0]
int_of_text(text) == IntegerStripped(strip_chars(text, AsciiSpace))

\* The exception of int(cell), or "none".
int_error(c) ==
    IF c.t \in {"int", "long", "bool"} THEN "none"
    ELSE IF c.t = "str" THEN IF int_of_text(c.v).ok THEN "none" ELSE "ValueError"
    ELSE IF IsNan(c.v) THEN "ValueError"
    ELSE IF IsInf(c.v) THEN "OverflowError"
    ELSE "none"

\* int(cell): truncation toward zero.
ToInt(c) ==
    IF c.t = "int" THEN c.v
    ELSE IF c.t = "str" THEN int_of_text(c.v).v
    ELSE IF c.t = "bool" THEN (IF c.v THEN 1 ELSE 0)
    ELSE Trunc(c.v)

\* str(n) of an int kept as a double: every digit of it.
LongToStr(x) == (IF x[1] < 0 THEN <<"-">> ELSE <<>>) \o BigDigits(BigShl(x[2], x[3]))

\* str(cell)
Str(c) ==
    IF c.t = "int" THEN IntToStr(c.v)
    ELSE IF c.t = "long" THEN LongToStr(c.v)
    ELSE IF c.t = "str" THEN c.v
    ELSE IF c.t = "bool" THEN (IF c.v THEN <<"T","r","u","e">> ELSE <<"F","a","l","s","e">>)
    ELSE FloatToStr(c.v)

\* repr(text): in double quotes when the text has an apostrophe and no double
\* quote, in apostrophes otherwise; the quote in use, the backslash and the
\* control characters are escaped.
Repr(c) ==
    LET EscapeOf(ch, quote) ==
            IF ch = "\\" THEN <<"\\", "\\">>
            ELSE IF ch = quote THEN <<"\\", quote>>
            ELSE IF ch = "\t" THEN <<"\\", "t">>
            ELSE IF ch = "\n" THEN <<"\\", "n">>
            ELSE IF ch = "\r" THEN <<"\\", "r">>
            ELSE IF ch = "\f" THEN <<"\\", "x", "0", "c">>
            ELSE IF ch \in {"\\x0b", "\\x1c", "\\x1d", "\\x1e", "\\x1f"}
            THEN [i \in 1..4 |-> IF i = 1 THEN "\\" ELSE IF i = 2 THEN "x"
                                 ELSE IF i = 3 THEN (IF ch = "\\x0b" THEN "0" ELSE "1")
                                 ELSE IF ch = "\\x0b" THEN "b"
                                 ELSE IF ch = "\\x1c" THEN "c"
                                 ELSE IF ch = "\\x1d" THEN "d"
                                 ELSE IF ch = "\\x1e" THEN "e" ELSE "f"]
            ELSE <<ch>>
        RECURSIVE Escaped(_, _)
        Escaped(s, quote) ==
            IF s = <<>> THEN <<>> ELSE EscapeOf(Head(s), quote) \o Escaped(Tail(s), quote)
        ReprText(s) ==
            LET quote == IF IndexOf(s, "'") # 0 /\ IndexOf(s, "\"") = 0 THEN "\"" ELSE "'"
            IN  <<quote>> \o Escaped(s, quote) \o <<quote>>
    IN  IF c.t = "str" THEN ReprText(c.v) ELSE Str(c)

Blanks(n) == [i \in 1..n |-> " "]
MaxOf(S) == IF S = {} THEN 0 ELSE CHOOSE m \in S : \A y \in S : y <= m

\* The elements of a float64 array as numpy prints them (precision 8): every
\* number by its shortest digits, cut at 8 digits after the point; with
\* exponents when a number is 1e8 or more, or below 1e-4, or the largest is
\* more than 1000 times the smallest; the points aligned, nan and inf to the
\* right.
Magnitude(x) == <<1, x[2], x[3]>>
FiniteAt(xs) == {i \in 1..Len(xs) : IsFinite(xs[i])}
ApartAt(xs) == {i \in 1..Len(xs) : IsFinite(xs[i]) /\ ~IsZero(xs[i])}
\* The largest (sense 1) or the smallest (sense -1) of the sizes of the
\* elements that are numbers and not zero.
ExtremeAbs(xs, sense) ==
    Magnitude(xs[CHOOSE i \in ApartAt(xs) : \A j \in ApartAt(xs) :
                    sense * FloatCmp(Magnitude(xs[j]), Magnitude(xs[i])) <= 0])
ExpFormatOf(max_val, min_val) ==
    \/ FloatLe(FromInt(100000000), max_val)
    \/ FloatLt(min_val, Dec(1, 4))
    \/ FloatLt(FromInt(1000), FloatDiv(max_val, min_val))
exp_format(xs) == ApartAt(xs) # {} /\ ExpFormatOf(ExtremeAbs(xs, 1), ExtremeAbs(xs, -1))
SignText(x) == IF x[1] < 0 THEN <<"-">> ELSE <<>>
\* The shortest digits s of x, or x rounded with -q digits after the point.
CutDigits(x, s, q) == IF s[2] >= q THEN s ELSE BigStripZeros(DecimalRound(x, -q), q)
\* <<the digits before the point, the digits after it>>
SplitDigits(digits, q) ==
    IF digits = <<>> THEN << <<"0">>, <<>> >>
    ELSE IF q >= 0 THEN <<digits \o Zeros(q), <<>>>>
    ELSE IF Len(digits) > -q
    THEN <<SubSeq(digits, 1, Len(digits) + q), SubSeq(digits, Len(digits) + q + 1, Len(digits))>>
    ELSE << <<"0">>, Zeros((-q) - Len(digits)) \o digits >>
\* <<the first digit, the digits after the point, the exponent>>
MantissaDigits(digits, q) ==
    IF digits = <<>> THEN << <<"0">>, <<>>, 0 >>
    ELSE << <<digits[1]>>, Tail(digits), Len(digits) + q - 1 >>
DigitParts(c, exp) ==
    IF exp THEN MantissaDigits(BigDigits(c[1]), c[2]) ELSE SplitDigits(BigDigits(c[1]), c[2])
ShortestParts(x, s, exp) ==
    DigitParts(CutDigits(x, s, IF exp THEN Len(BigDigits(s[1])) + s[2] - 9 ELSE -8), exp)
FloatParts(x, exp) ==
    IF ~IsFinite(x) THEN <<>>
    ELSE IF IsZero(x) THEN (IF exp THEN << <<"0">>, <<>>, 0 >> ELSE << <<"0">>, <<>> >>)
    ELSE ShortestParts(x, Shortest(x), exp)
ExponentText(e, width) ==
    (IF e < 0 THEN <<"-">> ELSE <<"+">>)
        \o Zeros(width - Len(BigDigits(BigOf(IF e < 0 THEN -e ELSE e))))
        \o BigDigits(BigOf(IF e < 0 THEN -e ELSE e))
FloatPlaced(xs, exp, parts, pad_right, left, exp_size) ==
    [ i \in 1..Len(xs) |->
        IF ~IsFinite(xs[i])
        THEN Blanks(left + pad_right + 1 - Len(NonFiniteText(xs[i]))) \o NonFiniteText(xs[i])
        ELSE Blanks(left - Len(SignText(xs[i]) \o parts[i][1]))
             \o SignText(xs[i]) \o parts[i][1] \o <<".">> \o parts[i][2]
             \o (IF exp
                 THEN Zeros((pad_right - exp_size - 2) - Len(parts[i][2]))
                      \o <<"e">> \o ExponentText(parts[i][3], exp_size)
                 ELSE Blanks(pad_right - Len(parts[i][2]))) ]
FloatWidened(xs, exp, parts, pad_left, pad_right, exp_size) ==
    FloatPlaced(xs, exp, parts, pad_right,
                IF FiniteAt(xs) = 1..Len(xs) THEN pad_left
                ELSE MaxOf({pad_left, 3 - (pad_right + 1),
                            3 + (IF \E i \in 1..Len(xs) : xs[i] = NegInf THEN 1 ELSE 0)
                              - (pad_right + 1)}),
                exp_size)
FloatSized(xs, exp, parts, exp_size) ==
    FloatWidened(xs, exp, parts,
                 MaxOf({Len(SignText(xs[i]) \o parts[i][1]) : i \in FiniteAt(xs)}),
                 (IF exp THEN exp_size + 2 ELSE 0)
                     + MaxOf({Len(parts[i][2]) : i \in FiniteAt(xs)}),
                 exp_size)
FloatMeasured(xs, exp, parts) ==
    FloatSized(xs, exp, parts,
               IF exp
               THEN MaxOf({Len(ExponentText(parts[i][3], 2)) : i \in FiniteAt(xs)}) - 1
               ELSE -1)
FloatWordsIn(xs, exp) == FloatMeasured(xs, exp, [i \in 1..Len(xs) |-> FloatParts(xs[i], exp)])
FloatWords(xs) == FloatWordsIn(xs, exp_format(xs))

\* str(r.values) of a table row. An int64 or uint64 array prints every
\* element right-aligned to the widest one, a float64 array as FloatWords has
\* it, a bool array every element as ' True' or 'False', an object array
\* every element by its repr. The elements are separated by a blank; a new
\* line is begun where the line would pass 74 characters.
RECURSIVE rstrip(_)
rstrip(line) ==
    IF line # <<>> /\ line[Len(line)] \in WhiteSpace
    THEN rstrip(SubSeq(line, 1, Len(line) - 1)) ELSE line
RECURSIVE WrappedWords(_, _, _)
WrappedWords(w, i, line) ==
    IF i > Len(w) THEN line
    ELSE IF Len(line) + Len(w[i]) > 74 /\ Len(line) > 1
    THEN rstrip(line) \o <<"\n">>
         \o WrappedWords(w, i + 1, <<" ">> \o w[i] \o (IF i < Len(w) THEN <<" ">> ELSE <<>>))
    ELSE WrappedWords(w, i + 1, line \o w[i] \o (IF i < Len(w) THEN <<" ">> ELSE <<>>))
IntWords(vals, widest) ==
    [i \in 1..Len(vals) |-> Blanks(widest - Len(Str(vals[i]))) \o Str(vals[i])]
BoolWords(vals) ==
    [i \in 1..Len(vals) |->
        IF vals[i].v THEN <<" ","T","r","u","e">> ELSE <<"F","a","l","s","e">>]
ArrayWords(row) ==
    IF row.dtype \in {"int64", "uint64"}
    THEN IntWords(row.vals, MaxOf({Len(Str(row.vals[i])) : i \in 1..Len(row.vals)}))
    ELSE IF row.dtype = "float64" THEN FloatWords([i \in 1..Len(row.vals) |-> row.vals[i].v])
    ELSE IF row.dtype = "bool" THEN BoolWords(row.vals)
    ELSE [i \in 1..Len(row.vals) |-> Repr(row.vals[i])]
ArrayText(w) == <<"[">> \o Tail(WrappedWords(w, 1, <<" ">>)) \o <<"]">>
StrValues(row) == ArrayText(ArrayWords(row))

(***************************************************************************)
(* The keyword lists of calculate_payroll and get_employee_list.           *)
(***************************************************************************)
kw_name == << <<"n","a","m","e">> >>
kw_emp_id == << <<"c","o","d","e">>, <<"e","m","p"," ","i","d">>,
                <<"e",".","c","o","d","e">>, <<"i","d">> >>
kw_designation == << <<"d","e","s","i","g","n","a","t","i","o","n">>,
                     <<"r","o","l","e">> >>
kw_basic_da == << <<"b","a","s","i","c">>,
                  <<"b","a","s","i","c"," ","+"," ","d","a">> >>
kw_hra == << <<"h","r","a">> >>
kw_other_allow == << <<"o","t","h","e","r"," ","a","l","l","o","w">>,
                     <<"a","l","l","o","w","a","n","c","e">> >>
kw_gross == << <<"g","r","o","s","s">>,
               <<"m","o","n","t","h","l","y"," ","g","r","o","s","s">>,
               <<"c","t","c">> >>
kw_days_in_month == << <<"d","a","y","s"," ","i","n"," ","m","o","n","t","h">>,
                       <<"m","o","n","t","h"," ","d","a","y","s">> >>
kw_tds == << <<"t","d","s">> >>
kw_present == << <<"p","r","e","s","e","n","t">>,
                 <<"t","o","t","a","l"," ","p","r","e","s","e","n","t">> >>
kw_paid_leaves == << <<"c","l">>, <<"e","l">>, <<"p","a","i","d"," ","l","e","a","v","e">> >>
kw_lop == << <<"l","o","p">> >>
kw_remaining == << <<"r","e","m","a","i","n","i","n","g">>,
                   <<"b","a","l","a","n","c","e">> >>
kw_department == << <<"d","e","p","a","r","t","m","e","n","t">>,
                    <<"d","e","p","t">> >>
kw_email == << <<"e","m","a","i","l">>, <<"m","a","i","l">> >>
Unknown == <<"U","n","k","n","o","w","n">>

\* datetime.now().strftime("%B %Y"); the clock counts months from October 2026.
MonthLabel(clock) ==
    LET MonthNames ==
            << <<"J","a","n","u","a","r","y">>,
               <<"F","e","b","r","u","a","r","y">>,
               <<"M","a","r","c","h">>,
               <<"A","p","r","i","l">>,
               <<"M","a","y">>,
               <<"J","u","n","e">>,
               <<"J","u","l","y">>,
               <<"A","u","g","u","s","t">>,
               <<"S","e","p","t","e","m","b","e","r">>,
               <<"O","c","t","o","b","e","r">>,
               <<"N","o","v","e","m","b","e","r">>,
               <<"D","e","c","e","m","b","e","r">> >>
    IN  MonthNames[((9 + clock) % 12) + 1] \o <<" ">>
            \o IntToStr(2026 + ((9 + clock) \div 12))

(***************************************************************************)
(* PayrollAgent: the column resolver.                                      *)
(* A row (pandas Series) is [index |-> labels, vals |-> cells].            *)
(***************************************************************************)
Series(columns, vals, dtype) == [index |-> columns, vals |-> vals, dtype |-> dtype]

\* any(k.lower() in str(col).lower() for k in col_keywords)
any_keyword_in(col_keywords, col) ==
    \E k \in 1..Len(col_keywords) : Contains(lower(col_keywords[k]), lower(col))

RECURSIVE get_from(_, _, _, _)
get_from(emp_row, col_keywords, default, i) ==
    IF i > Len(emp_row.index) THEN default
    ELSE IF any_keyword_in(col_keywords, emp_row.index[i]) THEN emp_row.vals[i]
    ELSE get_from(emp_row, col_keywords, default, i + 1)

\* A resolver that lets the keyword order decide (the first keyword that some
\* column carries), instead of the column order.
RECURSIVE get_keyword_first(_, _, _, _)
get_keyword_first(emp_row, col_keywords, default, k) ==
    IF k > Len(col_keywords) THEN default
    ELSE IF \E i \in 1..Len(emp_row.index) :
                Contains(lower(col_keywords[k]), lower(emp_row.index[i]))
    THEN emp_row.vals[CHOOSE i \in 1..Len(emp_row.index) :
                /\ Contains(lower(col_keywords[k]), lower(emp_row.index[i]))
                /\ \A j \in 1..(i - 1) :
                      ~Contains(lower(col_keywords[k]), lower(emp_row.index[j]))]
    ELSE get_keyword_first(emp_row, col_keywords, default, k + 1)

get_mutant_keyword_order(emp_row, col_keywords, default) ==
    get_keyword_first(emp_row, col_keywords, default, 1)

\* def get(col_keywords, default=0) of calculate_payroll and of get_employee_list.
get(emp_row, col_keywords, default) == get_from(emp_row, col_keywords, default, 1)

(***************************************************************************)
(* PayrollAgent: policies and the deduction formulas.                      *)
(***************************************************************************)
DefaultPolicies ==
    [ pf_rate |-> Dec(12, 2),
      pf_cap |-> FromInt(1800),
      esi_employee_rate |-> Dec(75, 4),
      esi_threshold |-> FromInt(21000),
      pt_amount |-> FromInt(200),
      leave_encashment |-> FALSE,
      encash_max_days |-> FromInt(10) ]

\* A DataFrame is [columns |-> labels, dtypes |-> the type of every column,
\* rows |-> sequence of rows of cells].
EmptyFrame == [columns |-> <<>>, dtypes |-> <<>>, rows |-> <<>>]
empty(df) == df.rows = <<>> \/ df.columns = <<>>

\* The type of the array a row is handed out as: the common type of the
\* columns. Bools have a common type with bools only; int64 and uint64
\* meet in float64.
row_dtype(df) ==
    IF \E j \in 1..Len(df.dtypes) : df.dtypes[j] = "object" THEN "object"
    ELSE IF df.dtypes = <<>> THEN "object"
    ELSE IF \A j \in 1..Len(df.dtypes) : df.dtypes[j] = "bool" THEN "bool"
    ELSE IF \E j \in 1..Len(df.dtypes) : df.dtypes[j] = "bool" THEN "object"
    ELSE IF \E j \in 1..Len(df.dtypes) : df.dtypes[j] = "float64" THEN "float64"
    ELSE IF \A j \in 1..Len(df.dtypes) : df.dtypes[j] = "uint64" THEN "uint64"
    ELSE IF \E j \in 1..Len(df.dtypes) : df.dtypes[j] = "uint64" THEN "float64"
    ELSE "int64"

\* Row i of a table, as iterrows(), apply(axis=1) and iloc hand it out: in a
\* table of numbers with a float64 column every number is a float.
iloc(df, i) ==
    Series(df.columns,
           IF row_dtype(df) = "float64"
           THEN [ j \in 1..Len(df.rows[i]) |->
                    IF df.rows[i][j].t \in {"int", "long"}
                    THEN FloatCell(Float(df.rows[i][j]))
                    ELSE df.rows[i][j] ]
           ELSE df.rows[i],
           row_dtype(df))

\* Line 121: prorated_gross = (gross_salary / days_in_month) * payable_days
calc_prorated_gross(gross_salary, days_in_month, payable_days) ==
    FloatMul(FloatDiv(gross_salary, FromInt(days_in_month)), payable_days)

calc_pf_mutant_no_cap(basic_da, policies) == FloatMul(basic_da, policies.pf_rate)

\* Line 123: pf = min(basic_da * pf_rate, pf_cap)
calc_pf(basic_da, policies) ==
    FloatMin(FloatMul(basic_da, policies.pf_rate), policies.pf_cap)

calc_esi_mutant_strict(prorated_gross, policies) ==
    IF FloatLt(prorated_gross, policies.esi_threshold)
    THEN FloatMul(prorated_gross, policies.esi_employee_rate)
    ELSE FromInt(0)

\* Line 124: esi = prorated_gross * rate if prorated_gross <= threshold else 0
calc_esi(prorated_gross, policies) ==
    IF FloatLe(prorated_gross, policies.esi_threshold)
    THEN FloatMul(prorated_gross, policies.esi_employee_rate)
    ELSE FromInt(0)

\* Line 125: pt = pt_amount if prorated_gross > 15000 else 0
calc_pt(prorated_gross, policies) ==
    IF FloatLt(FromInt(15000), prorated_gross) THEN policies.pt_amount ELSE FromInt(0)

\* Lines 128-130
calc_encashment(basic_da, hra, remaining_leaves, policies) ==
    IF policies.leave_encashment /\ FloatLt(FromInt(0), remaining_leaves)
    THEN FloatMul(FloatDiv(FloatAdd(basic_da, hra), FromInt(30)),
                  FloatMin(remaining_leaves, policies.encash_max_days))
    ELSE FromInt(0)

\* The rows of the attendance table whose stringified cells contain the id.
att_match(attendance, emp_id) ==
    SelectSeq([i \in 1..Len(attendance.rows) |-> i],
              LAMBDA i : Contains(lower(Str(emp_id)), lower(StrValues(iloc(attendance, i)))))

\* Lines 104-107: the attendance figures used when no attendance row is read.
attendance_defaults(days_in_month) ==
    [ present_days |-> FromInt(days_in_month),
      approved_paid_leaves |-> FromInt(0),
      lop_days |-> FromInt(0),
      remaining_leaves |-> FromInt(12) ]

\* Lines 120-155: the formulas and the returned dict, once attendance is settled.
payroll_dict(F, att, clock, payable_days, prorated_gross, pf, esi, pt, encashment, total_deductions) ==
    [ err |-> "none",
      emp_id |-> Str(F.emp_id),
      name |-> Str(F.name),
      designation |-> Str(F.designation),
      month |-> MonthLabel(clock),
      present_days |-> round(att.present_days, 1),
      approved_paid_leaves |-> round(att.approved_paid_leaves, 1),
      lop_days |-> round(att.lop_days, 1),
      payable_days |-> round(payable_days, 1),
      remaining_leaves |-> round(att.remaining_leaves, 1),
      basic_da |-> round(F.basic_da, 2),
      hra |-> round(F.hra, 2),
      other_allow |-> round(F.other_allow, 2),
      gross |-> round(prorated_gross, 2),
      pf |-> round(pf, 2),
      esi |-> round(esi, 2),
      pt |-> round(pt, 2),
      tds |-> round(F.tds, 2),
      encashment |-> round(encashment, 2),
      total_deductions |-> round(total_deductions, 2),
      \* net_pay = prorated_gross - total_deductions + encashment
      net_pay |-> round(FloatAdd(FloatSub(prorated_gross, total_deductions), encashment), 2) ]
payroll_deducted(F, att, clock, payable_days, prorated_gross, pf, esi, pt, encashment) ==
    payroll_dict(F, att, clock, payable_days, prorated_gross, pf, esi, pt, encashment,
                 \* total_deductions = pf + esi + pt + tds
                 FloatAdd(FloatAdd(FloatAdd(pf, esi), pt), F.tds))
\* Lines 123-130 with a policy that is None (a NULL of the policies table
\* applied to the agent): the arithmetic and the comparisons that meet it
\* raise TypeError. A pt_amount of None is met by the sum of line 126.
policy_missing(att, policies, prorated_gross) ==
    \/ policies.pf_rate = <<>>
    \/ policies.pf_cap = <<>>
    \/ policies.esi_threshold = <<>>
    \/ policies.esi_employee_rate = <<>> /\ FloatLe(prorated_gross, policies.esi_threshold)
    \/ policies.pt_amount = <<>> /\ FloatLt(FromInt(15000), prorated_gross)
    \/ /\ policies.encash_max_days = <<>>
       /\ policies.leave_encashment
       /\ FloatLt(FromInt(0), att.remaining_leaves)
payroll_prorated(F, att, policies, clock, payable_days, prorated_gross) ==
    IF policy_missing(att, policies, prorated_gross) THEN [err |-> "TypeError"] ELSE
    payroll_deducted(F, att, clock, payable_days, prorated_gross,
                     calc_pf(F.basic_da, policies),
                     calc_esi(prorated_gross, policies),
                     calc_pt(prorated_gross, policies),
                     calc_encashment(F.basic_da, F.hra, att.remaining_leaves, policies))
payroll_payable(F, att, policies, clock, payable_days) ==
    payroll_prorated(F, att, policies, clock, payable_days,
                     calc_prorated_gross(F.gross_salary, F.days_in_month, payable_days))
payroll_result(F, att, policies, clock) ==
    \* payable_days = present_days + approved_paid_leaves
    payroll_payable(F, att, policies, clock,
                    FloatAdd(att.present_days, att.approved_paid_leaves))

\* Lines 93-101: the fields resolved from the salary row (before conversion).
resolve_fields(emp_row) ==
    [ name |-> get(emp_row, kw_name, IntCell(0)),
      emp_id |-> get(emp_row, kw_emp_id, StrCell(Unknown)),
      designation |-> get(emp_row, kw_designation, IntCell(0)),
      basic_da |-> get(emp_row, kw_basic_da, IntCell(0)),
      hra |-> get(emp_row, kw_hra, IntCell(0)),
      other_allow |-> get(emp_row, kw_other_allow, IntCell(0)),
      days_in_month |-> get(emp_row, kw_days_in_month, IntCell(31)),
      tds |-> get(emp_row, kw_tds, IntCell(0)) ]

\* def calculate_payroll(self, emp_row): the result dict, or the exception raised.
\* `data` and `policies` are the agent's; `clock` is the month of datetime.now().
payroll_computed(data, policies, clock, F) ==
    IF "attendance" \notin DOMAIN data THEN [err |-> "KeyError"]
    ELSE IF ~empty(data.attendance) /\ att_match(data.attendance, F.emp_id) # <<>>
    \* get(att, ['present', 'total present'], days_in_month): three arguments
    \* to the two-parameter closure get(col_keywords, default=0).
    THEN [err |-> "TypeError"]
    ELSE IF F.days_in_month = 0 THEN [err |-> "ZeroDivisionError"]
    ELSE payroll_result(F, attendance_defaults(F.days_in_month), policies, clock)
payroll_converted(data, policies, clock, R, gross_cell) ==
    IF ~CanFloat(gross_cell) THEN [err |-> "ValueError"]
    ELSE IF int_error(R.days_in_month) # "none" THEN [err |-> int_error(R.days_in_month)]
    ELSE IF ~CanFloat(R.tds) THEN [err |-> "ValueError"]
    ELSE payroll_computed(data, policies, clock,
                          [ name |-> R.name, emp_id |-> R.emp_id,
                            designation |-> R.designation,
                            basic_da |-> Float(R.basic_da), hra |-> Float(R.hra),
                            other_allow |-> Float(R.other_allow),
                            gross_salary |-> Float(gross_cell),
                            days_in_month |-> ToInt(R.days_in_month),
                            tds |-> Float(R.tds) ])
payroll_resolved(data, policies, emp_row, clock, R) ==
    IF ~(CanFloat(R.basic_da) /\ CanFloat(R.hra) /\ CanFloat(R.other_allow))
    THEN [err |-> "ValueError"]
    ELSE payroll_converted(data, policies, clock, R,
                           get(emp_row, kw_gross,
                               FloatCell(FloatAdd(FloatAdd(Float(R.basic_da), Float(R.hra)),
                                                  Float(R.other_allow)))))
calculate_payroll(data, policies, emp_row, clock) ==
    payroll_resolved(data, policies, emp_row, clock, resolve_fields(emp_row))

(***************************************************************************)
(* PayrollAgent: the workbook loader.                                      *)
(* A file is [readable |-> BOOLEAN, sheets |-> sequence of sheets]; a      *)
(* sheet is [name |-> text, columns |-> labels, rows |-> rows of cells].   *)
(***************************************************************************)
SalaryHeaders ==
    { <<"b","a","s","i","c">>, <<"h","r","a">>, <<"g","r","o","s","s">>,
      <<"c","t","c">>, <<"s","a","l","a","r","y">> }

\* any(col.lower() in ['basic', ...] for col in temp_df.columns.str.lower())
is_salary_sheet(sheet) ==
    \E i \in 1..Len(sheet.columns) : lower(lower(sheet.columns[i])) \in SalaryHeaders

is_attendance_sheet(sheet) == Contains(<<"a","t","t","e","n">>, lower(sheet.name))

\* The texts read_excel takes for a missing value (STR_NA_VALUES of pandas).
NaStrings ==
    { <<>>, <<"#","N","/","A">>, <<"#","N","/","A"," ","N","/","A">>,
      <<"#","N","A">>, <<"-","1",".","#","I","N","D">>,
      <<"-","1",".","#","Q","N","A","N">>, <<"-","N","a","N">>,
      <<"-","n","a","n">>, <<"1",".","#","I","N","D">>,
      <<"1",".","#","Q","N","A","N">>, <<"<","N","A",">">>, <<"N","/","A">>,
      <<"N","A">>, <<"N","U","L","L">>, <<"N","a","N">>, <<"N","o","n","e">>,
      <<"n","/","a">>, <<"n","a","n">>, <<"n","u","l","l">> }

\* Whether the column parser of read_excel reads a text as a number: an
\* optional sign, digits with an optional fraction and an optional exponent,
\* white space around them, or inf (infinity) with nothing around it.
numeric_text(text) ==
    IF lower(Unsigned(strip_chars(text, AsciiSpace)))
           \in {<<"i","n","f">>, <<"i","n","f","i","n","i","t","y">>}
    THEN strip_chars(text, AsciiSpace) = text
    ELSE /\ lower(Unsigned(strip_chars(text, AsciiSpace))) # <<"n","a","n">>
         /\ \A i \in 1..Len(text) : text[i] # "_"
         /\ float_of_text(text).ok

\* df = pd.read_excel(xls, sheet_name=sheet) followed by
\* dropna(how='all').reset_index(drop=True). The reader drops the blank rows
\* that end the sheet and hands over a whole-valued number as an int,
\* whatever its size; a text of NaStrings is a missing value. A column of
\* numbers (numeral texts included) is int64, uint64 when it has an int
\* from 2^63 on, and float64 as soon as it holds a fraction, a missing value
\* or an int beyond 64 bits, every number of it then a float; an int from
\* 2^63 on next to a negative int or a missing value leaves the column as
\* it is (object). A column of the texts for true and false is bool, and
\* object, with bools in it, when it has missing values too. A column with
\* any other text is left as it is (object).
RECURSIVE trim_blank_rows(_)
trim_blank_rows(rows) ==
    IF rows # <<>> /\ \A j \in 1..Len(rows[Len(rows)]) : rows[Len(rows)][j].t = "nan"
    THEN trim_blank_rows(SubSeq(rows, 1, Len(rows) - 1)) ELSE rows
convert_cell(c) ==
    IF c.t = "float" /\ IsFinite(c.v) /\ c.v[3] = 0 /\ Len(c.v[2]) <= 2
    THEN IntCell(Trunc(c.v))
    ELSE IF c.t = "float" /\ IsFinite(c.v) /\ c.v[3] >= 0 THEN LongCell(c.v)
    ELSE IF c.t = "str" /\ c.v \in NaStrings THEN NaN
    ELSE c
\* The number a cell of a numeric column holds.
number_cell(c) ==
    IF c.t # "str" THEN c
    ELSE IF int_of_text(c.v).ok THEN IntCell(int_of_text(c.v).v)
    ELSE FloatCell(float_of_text(c.v).v)
\* An int of the int64 range that is negative, one from 2^63 up to 2^64 - 1,
\* and one beyond both ranges.
InInt64(x) == TopBit(x) <= 63 \/ x = <<-1, <<1>>, 63>>
SignedInt(c) == (c.t = "int" /\ c.v < 0) \/ (c.t = "long" /\ c.v[1] < 0 /\ InInt64(c.v))
UnsignedInt(c) == c.t = "long" /\ c.v[1] > 0 /\ TopBit(c.v) = 64
WideInt(c) == c.t = "long" /\ ~InInt64(c.v) /\ ~UnsignedInt(c)
TrueValues == { <<"T","r","u","e">>, <<"T","R","U","E">>, <<"t","r","u","e">> }
FalseValues == { <<"F","a","l","s","e">>, <<"F","A","L","S","E">>, <<"f","a","l","s","e">> }
\* Whether a column that is not one of numbers is one of the texts for true
\* and false, missing values aside.
bool_column(rows, j) ==
    /\ \E i \in 1..Len(rows) : rows[i][j].t = "str"
    /\ \A i \in 1..Len(rows) :
          \/ rows[i][j].t = "nan"
          \/ rows[i][j].t = "str" /\ rows[i][j].v \in TrueValues \cup FalseValues
column_dtype(rows, j) ==
    IF rows = <<>> THEN "object"
    ELSE IF bool_column(rows, j)
    THEN (IF \E i \in 1..Len(rows) : rows[i][j].t = "nan" THEN "object" ELSE "bool")
    ELSE IF \E i \in 1..Len(rows) : rows[i][j].t = "str" /\ ~numeric_text(rows[i][j].v)
    THEN "object"
    ELSE IF /\ \E i \in 1..Len(rows) : UnsignedInt(number_cell(rows[i][j]))
            /\ \E i \in 1..Len(rows) :
                  rows[i][j].t = "nan" \/ SignedInt(number_cell(rows[i][j]))
    THEN "object"
    ELSE IF \E i \in 1..Len(rows) :
               \/ number_cell(rows[i][j]).t \in {"float", "nan"}
               \/ WideInt(number_cell(rows[i][j]))
    THEN "float64"
    ELSE IF \E i \in 1..Len(rows) : UnsignedInt(number_cell(rows[i][j])) THEN "uint64"
    ELSE "int64"
as_dtype(c, t) ==
    IF t = "float64" /\ c.t \in {"int", "long"} THEN FloatCell(Float(c)) ELSE c
bool_cell(c) ==
    IF c.t # "str" THEN c ELSE BoolCell(c.v \in TrueValues)
typed_rows(rows, dtypes, bools) ==
    [ i \in 1..Len(rows) |->
        [ j \in 1..Len(rows[i]) |->
            IF bools[j] THEN bool_cell(rows[i][j])
            ELSE as_dtype(IF dtypes[j] = "object" THEN rows[i][j]
                          ELSE number_cell(rows[i][j]),
                          dtypes[j]) ] ]
frame_of(columns, rows, dtypes, bools) ==
    [ columns |-> columns,
      dtypes |-> dtypes,
      rows |-> SelectSeq(typed_rows(rows, dtypes, bools),
                         LAMBDA r : \E j \in 1..Len(r) : r[j].t # "nan") ]
parsed_frame(columns, rows) ==
    frame_of(columns, rows, [j \in 1..Len(columns) |-> column_dtype(rows, j)],
             [j \in 1..Len(columns) |-> rows # <<>> /\ bool_column(rows, j)])
read_frame(sheet) ==
    parsed_frame(sheet.columns,
                 [ i \in 1..Len(trim_blank_rows(sheet.rows)) |->
                     [ j \in 1..Len(sheet.rows[i]) |-> convert_cell(sheet.rows[i][j]) ] ])

\* The first loop (lines 44-48): the last sheet that qualifies as salary, or 0.
last_salary_sheet(sheets) ==
    IF \E i \in 1..Len(sheets) : is_salary_sheet(sheets[i])
    THEN CHOOSE i \in 1..Len(sheets) :
            is_salary_sheet(sheets[i])
            /\ \A j \in (i + 1)..Len(sheets) : ~is_salary_sheet(sheets[j])
    ELSE 0

\* The second loop (lines 50-53): the last sheet named like attendance, or 0.
last_attendance_sheet(sheets) ==
    IF \E i \in 1..Len(sheets) : is_attendance_sheet(sheets[i])
    THEN CHOOSE i \in 1..Len(sheets) :
            is_attendance_sheet(sheets[i])
            /\ \A j \in (i + 1)..Len(sheets) : ~is_attendance_sheet(sheets[j])
    ELSE 0

\* Line 46 on a sheet without cells: the frame read from it has no column
\* labels to lower, and the test raises.
no_labels(sheets) == \E i \in 1..Len(sheets) : sheets[i].columns = <<>>

load_uploaded_excel_mutant_keep_attendance(data, file) ==
    IF ~file.readable \/ no_labels(file.sheets) THEN [ok |-> FALSE, data |-> data]
    ELSE
    LET s == last_salary_sheet(file.sheets)
        a == last_attendance_sheet(file.sheets)
    IN  IF s = 0 THEN [ok |-> FALSE, data |-> data]
        ELSE [ ok |-> TRUE,
               data |-> [ salary |-> read_frame(file.sheets[s]),
                          attendance |-> IF a # 0 THEN read_frame(file.sheets[a])
                                         ELSE IF data = <<>> THEN EmptyFrame
                                         ELSE data.attendance ] ]

\* def load_uploaded_excel(self, uploaded_excel_path): the value returned and
\* the agent's data afterwards. Every exception is caught and turned into False.
load_uploaded_excel(data, file) ==
    IF ~file.readable \/ no_labels(file.sheets) THEN [ok |-> FALSE, data |-> data]
    ELSE
    LET s == last_salary_sheet(file.sheets)
        a == last_attendance_sheet(file.sheets)
    IN  IF s = 0 THEN [ok |-> FALSE, data |-> data]
        ELSE [ ok |-> TRUE,
               data |-> [ salary |-> read_frame(file.sheets[s]),
                          attendance |-> IF a = 0 THEN EmptyFrame
                                         ELSE read_frame(file.sheets[a]) ] ]

\* def set_policies_direct(self, policies)
set_policies_direct(policies, new) ==
    [k \in DOMAIN policies |-> IF k \in DOMAIN new THEN new[k] ELSE policies[k]]

\* re.search(r'pf cap\s*(\d+)', text): group 1 of the leftmost match, or <<>>
\* when there is none.
pf_match(text) ==
    LET pf_cap_keyword == <<"p","f"," ","c","a","p">>
        starts == { i \in 1..(Len(text) - Len(pf_cap_keyword) + 1) :
                      /\ SubSeq(text, i, i + Len(pf_cap_keyword) - 1) = pf_cap_keyword
                      /\ LET d == skip_while(text, i + Len(pf_cap_keyword), WhiteSpace)
                         IN  d <= Len(text) /\ text[d] \in DigitSet }
    IN  IF starts = {} THEN <<>>
        ELSE LET i == CHOOSE x \in starts : \A y \in starts : x <= y
                 d == skip_while(text, i + Len(pf_cap_keyword), WhiteSpace)
             IN  SubSeq(text, d, skip_while(text, d, DigitSet) - 1)

update_policy_mutant_encash_off(policies, policy_text) ==
    LET text == lower(policy_text)
        p1 == [policies EXCEPT !.leave_encashment =
                  Contains(<<"e","n","c","a","s","h">>, text) \/ Contains(<<"l","e","a","v","e"," ","e","n","c","a","s","h","m","e","n","t">>, text)]
        p2 == IF Contains(<<"p","t"," ","2","5","0">>, text)
              THEN [p1 EXCEPT !.pt_amount = FromInt(250)] ELSE p1
    IN  IF pf_match(text) # <<>>
        THEN [p2 EXCEPT !.pf_cap = FromInt(StrToInt(pf_match(text)))] ELSE p2

update_policy_mutant_resets_pt(policies, policy_text) ==
    LET text == lower(policy_text)
        p1 == IF Contains(<<"e","n","c","a","s","h">>, text) \/ Contains(<<"l","e","a","v","e"," ","e","n","c","a","s","h","m","e","n","t">>, text)
              THEN [policies EXCEPT !.leave_encashment = TRUE] ELSE policies
        p2 == IF Contains(<<"p","t"," ","2","5","0">>, text)
              THEN [p1 EXCEPT !.pt_amount = FromInt(250)]
              ELSE [p1 EXCEPT !.pt_amount = FromInt(200)]
    IN  IF pf_match(text) # <<>>
        THEN [p2 EXCEPT !.pf_cap = FromInt(StrToInt(pf_match(text)))] ELSE p2

\* def update_policy(self, policy_text)
update_policy(policies, policy_text) ==
    LET text == lower(policy_text)
        p1 == IF Contains(<<"e","n","c","a","s","h">>, text) \/ Contains(<<"l","e","a","v","e"," ","e","n","c","a","s","h","m","e","n","t">>, text)
              THEN [policies EXCEPT !.leave_encashment = TRUE] ELSE policies
        p2 == IF Contains(<<"p","t"," ","2","5","0">>, text)
              THEN [p1 EXCEPT !.pt_amount = FromInt(250)] ELSE p1
    IN  IF pf_match(text) # <<>>
        THEN [p2 EXCEPT !.pf_cap = FromInt(StrToInt(pf_match(text)))] ELSE p2

\* `x or 0`: 0, 0.0, False and '' are falsy; nan is not.
or_0(c) ==
    IF (c.t = "int" /\ c.v = 0) \/ (c.t = "float" /\ IsZero(c.v))
          \/ (c.t = "str" /\ c.v = <<>>) \/ (c.t = "bool" /\ ~c.v)
    THEN IntCell(0) ELSE c

\* float(x or 0)
float_or_0(c) == Float(or_0(c))

\* One dict of get_employee_list (lines 230-240), for a row of the salary table.
employee_dict(row) ==
    [ emp_id |-> Str(get(row, kw_emp_id, StrCell(Unknown))),
      name |-> Str(get(row, kw_name, StrCell(<<>>))),
      designation |-> Str(get(row, kw_designation, StrCell(<<>>))),
      department |-> Str(get(row, kw_department, StrCell(<<>>))),
      email |-> Str(get(row, kw_email, StrCell(<<>>))),
      basic_da |-> float_or_0(get(row, kw_basic_da, IntCell(0))),
      hra |-> float_or_0(get(row, kw_hra, IntCell(0))),
      other_allowances |-> float_or_0(get(row, kw_other_allow, IntCell(0))),
      gross_salary |-> float_or_0(get(row, kw_gross, IntCell(0))) ]

\* Whether the dict of a row cannot be built: one of its amounts is text that
\* float() does not take.
employee_dict_raises(row) ==
    \E kw \in {kw_basic_da, kw_hra, kw_other_allow, kw_gross} :
        ~CanFloat(or_0(get(row, kw, IntCell(0))))

\* Whether get_employee_list raises ValueError.
get_employee_list_raises(data) ==
    /\ "salary" \in DOMAIN data
    /\ ~empty(data.salary)
    /\ \E i \in 1..Len(data.salary.rows) :
          employee_dict_raises(iloc(data.salary, i))

\* def get_employee_list(self): one dict per salary row, in table order
\* (when it does not raise).
get_employee_list(data) ==
    IF "salary" \notin DOMAIN data \/ empty(data.salary) THEN <<>>
    ELSE [ i \in 1..Len(data.salary.rows) |->
             employee_dict(iloc(data.salary, i)) ]

(***************************************************************************)
(* PayrollAgent: rendering and the batch operations.                       *)
(* The payslip directory is a function from path to the rendered dict.     *)
(***************************************************************************)
PAYSLIP_DIR == <<"p","a","y","s","l","i","p","s">>

\* Line 158: the file name of the document of a result.
payslip_filename(payroll) ==
    <<"p","a","y","s","l","i","p","_">> \o payroll.emp_id
        \o <<"_">> \o Replace(payroll.month, " ", "_") \o <<".","p","d","f">>

\* The path of generate_payslip_pdf: os.path.join(self.payslip_dir, filename).
payslip_path(payroll) == PAYSLIP_DIR \o <<"/">> \o payslip_filename(payroll)

Put(f, k, v) == [x \in (DOMAIN f) \cup {k} |-> IF x = k THEN v ELSE f[x]]

\* The part of a file name before its first '/'.
first_name(filename) ==
    IF IndexOf(filename, "/") = 0 THEN filename
    ELSE SubSeq(filename, 1, IndexOf(filename, "/") - 1)

\* open(os.path.join(directory, filename), 'wb'): the exception raised, or
\* "none". `paths` are the files of the directory, which has no directories
\* below it. A path of 4096 characters or more, or a first name of more than
\* 255, is ENAMETOOLONG (OSError); a file name with a '/' asks for a
\* directory that is not there (FileNotFoundError), or that is a file
\* (NotADirectoryError).
open_error(directory, paths, filename) ==
    IF Len(directory) + 1 + Len(filename) >= 4096 THEN "OSError"
    ELSE IF Len(first_name(filename)) > 255 THEN "OSError"
    ELSE IF IndexOf(filename, "/") = 0 THEN "none"
    ELSE IF (directory \o <<"/">> \o first_name(filename)) \in paths
    THEN "NotADirectoryError"
    ELSE "FileNotFoundError"

generate_payslip_pdf_mutant_keep_existing(dir, payroll) ==
    [ err |-> open_error(PAYSLIP_DIR, DOMAIN dir, payslip_filename(payroll)),
      path |-> payslip_path(payroll),
      dir |-> IF open_error(PAYSLIP_DIR, DOMAIN dir, payslip_filename(payroll)) # "none"
                    \/ payslip_path(payroll) \in DOMAIN dir
              THEN dir
              ELSE Put(dir, payslip_path(payroll), payroll) ]

\* def generate_payslip_pdf(self, data): the path and the directory
\* afterwards, or the exception pdf.output(path) raises (line 190).
generate_payslip_pdf(dir, payroll) ==
    [ err |-> open_error(PAYSLIP_DIR, DOMAIN dir, payslip_filename(payroll)),
      path |-> payslip_path(payroll),
      dir |-> IF open_error(PAYSLIP_DIR, DOMAIN dir, payslip_filename(payroll)) # "none"
              THEN dir
              ELSE Put(dir, payslip_path(payroll), payroll) ]

\* payroll['pdf_path'] = pdf_path
with_pdf_path(payroll, pdf_path) ==
    [f \in (DOMAIN payroll) \cup {"pdf_path"} |->
        IF f = "pdf_path" THEN pdf_path ELSE payroll[f]]

\* The loop of generate_all_payslips from row i on: the results so far, the
\* directory, and the exception that ended it ("none" when it ran to the end).
\* rendered_from is the body of the loop for row i once its payroll is computed,
\* appended_from the rest of it once the document is rendered.
\* calculate_payroll reads datetime.now() itself (line 138), once per row:
\* nows[i] is the reading taken for row i.
RECURSIVE all_payslips_from(_, _, _, _, _, _)
RECURSIVE rendered_from(_, _, _, _, _, _, _)
RECURSIVE appended_from(_, _, _, _, _, _, _)
RECURSIVE appended_from_skipping(_, _, _, _, _, _, _)
all_payslips_from(data, policies, nows, dir, results, i) ==
    IF i > Len(data.salary.rows)
    THEN [err |-> "none", results |-> results, dir |-> dir]
    ELSE rendered_from(data, policies, nows, dir, results, i,
             calculate_payroll(data, policies,
                               iloc(data.salary, i), nows[i]))

appended_from_skipping(data, policies, nows, results, i, payroll, pdf) ==
    IF pdf.err # "none"
    THEN all_payslips_from(data, policies, nows, pdf.dir, results, i + 1)
    ELSE all_payslips_from(data, policies, nows, pdf.dir,
             Append(results, with_pdf_path(payroll, pdf.path)), i + 1)

rendered_from_mutant_skip_failed(data, policies, nows, dir, results, i, payroll) ==
    IF payroll.err # "none"
    THEN all_payslips_from(data, policies, nows, dir, results, i + 1)
    ELSE appended_from_skipping(data, policies, nows, results, i, payroll,
                                generate_payslip_pdf(dir, payroll))

appended_from(data, policies, nows, results, i, payroll, pdf) ==
    IF pdf.err # "none"
    THEN [err |-> pdf.err, results |-> <<>>, dir |-> pdf.dir]
    ELSE all_payslips_from(data, policies, nows, pdf.dir,
             Append(results, with_pdf_path(payroll, pdf.path)), i + 1)

rendered_from(data, policies, nows, dir, results, i, payroll) ==
    IF payroll.err # "none"
    THEN [err |-> payroll.err, results |-> <<>>, dir |-> dir]
    ELSE appended_from(data, policies, nows, results, i, payroll,
                       generate_payslip_pdf(dir, payroll))

\* def generate_all_payslips(self)
generate_all_payslips(data, policies, nows, dir) ==
    IF "salary" \notin DOMAIN data
    THEN [err |-> "KeyError", results |-> <<>>, dir |-> dir]
    ELSE all_payslips_from(data, policies, nows, dir, <<>>, 1)

\* The number of readings of the clock a run over the salary rows takes.
RowCount(data) == IF "salary" \in DOMAIN data THEN Len(data.salary.rows) ELSE 0

\* The readings n successive calls of datetime.now() can give from now on, the
\* calendar going no further than max.
Readings(now, n, max) ==
    {nows \in [1..n -> now..max] : \A i \in 1..(n - 1) : nows[i] <= nows[i + 1]}

\* The readings when the month does not end meanwhile.
Steady(now, n) == [i \in 1..n |-> now]

\* The clock once the readings have been taken.
After(now, nows) == IF nows = <<>> THEN now ELSE nows[Len(nows)]

\* The rows of the salary table whose stringified cells contain emp_id
\* (line 204), in table order.
salary_match(salary, emp_id) ==
    SelectSeq([i \in 1..Len(salary.rows) |-> i],
              LAMBDA i : Contains(lower(emp_id), lower(StrValues(iloc(salary, i)))))

\* Lines 207-210 of generate_single_payslip, payroll being what
\* calculate_payroll returned or raised, pdf what generate_payslip_pdf did.
single_written(payroll, pdf) ==
    IF pdf.err # "none" THEN [err |-> pdf.err, result |-> <<>>, dir |-> pdf.dir]
    ELSE [ err |-> "none", result |-> with_pdf_path(payroll, pdf.path), dir |-> pdf.dir ]
single_rendered(dir, payroll) ==
    IF payroll.err # "none" THEN [err |-> payroll.err, result |-> <<>>, dir |-> dir]
    ELSE single_written(payroll, generate_payslip_pdf(dir, payroll))

\* def generate_single_payslip(self, emp_id): the result dict and the payslip
\* directory afterwards, or the exception raised.
single_of(data, policies, clock, dir, row) ==
    IF row = <<>> THEN [err |-> "ValueError", result |-> <<>>, dir |-> dir]
    ELSE single_rendered(dir, calculate_payroll(data, policies,
                                                iloc(data.salary, Head(row)), clock))
generate_single_payslip(data, policies, clock, dir, emp_id) ==
    IF "salary" \notin DOMAIN data
    THEN [err |-> "KeyError", result |-> <<>>, dir |-> dir]
    ELSE single_of(data, policies, clock, dir, salary_match(data.salary, emp_id))

(***************************************************************************)
(* Input domain: the labels, cells and workbooks the operations are run on. *)
(***************************************************************************)
L_EmpCode == <<"E","m","p"," ","C","o","d","e">>
L_Name == <<"N","a","m","e">>
L_Designation == <<"D","e","s","i","g","n","a","t","i","o","n">>
L_Basic == <<"B","a","s","i","c">>
L_BasicDA == <<"B","a","s","i","c","+","D","A">>
L_HRA == <<"H","R","A">>
L_Gross == <<"G","r","o","s","s">>
L_GrossSalary == <<"G","r","o","s","s"," ","S","a","l","a","r","y">>
L_Days == <<"D","a","y","s"," ","i","n"," ","M","o","n","t","h">>
L_TDS == <<"T","D","S">>
L_IDCard == <<"I","D"," ","C","a","r","d">>
L_Email == <<"E","m","a","i","l">>
L_OtherAllowance == <<"O","t","h","e","r"," ","A","l","l","o","w","a","n","c","e">>
L_Present == <<"P","r","e","s","e","n","t">>
L_PaidLeave == <<"P","a","i","d"," ","L","e","a","v","e">>
L_LOP == <<"L","O","P">>
L_Remaining == <<"R","e","m","a","i","n","i","n","g">>
T_E001 == <<"E","0","0","1">>
T_E002 == <<"E","0","0","2">>
T_E003 == <<"E","0","0","3">>
T_Asha == <<"A","s","h","a">>
T_Ravi == <<"R","a","v","i">>
T_Meena == <<"M","e","e","n","a">>
T_Clerk == <<"C","l","e","r","k">>
T_Engineer == <<"E","n","g","i","n","e","e","r">>
N_Salary == <<"S","a","l","a","r","y">>
N_Attendance == <<"A","t","t","e","n","d","a","n","c","e">>
N_SalaryMain == <<"S","a","l","a","r","y","M","a","i","n">>
N_Sheet1 == <<"S","h","e","e","t","1">>
N_AttenPay == <<"A","T","T","E","N"," ","P","a","y">>

SalaryColumns == <<L_EmpCode, L_Name, L_Designation, L_Basic, L_HRA, L_Gross, L_Days, L_TDS>>
SalaryRow1 == <<StrCell(T_E001), StrCell(T_Asha), StrCell(T_Clerk),
                IntCell(20000), IntCell(8000), IntCell(28000), IntCell(30), IntCell(0)>>
SalaryRow2 == <<StrCell(T_E002), StrCell(T_Ravi), StrCell(T_Engineer),
                IntCell(9000), IntCell(6000), IntCell(15000), IntCell(30), IntCell(0)>>
SalaryRow3 == <<StrCell(T_E003), StrCell(T_Meena), StrCell(T_Clerk),
                IntCell(12000), IntCell(9000), IntCell(21000), IntCell(31), IntCell(500)>>
BlankRow8 == <<NaN, NaN, NaN, NaN, NaN, NaN, NaN, NaN>>

\* Rows whose cells are not whole numbers: a blank basic pay; a month of 29
\* days, where the division leaves a double next to the gross salary; a
\* basic pay that is text; one that is a numeral typed as text; a negative
\* fraction of days; a blank TDS.
T_E004 == <<"E","0","0","4">>
T_E006 == <<"E","0","0","6">>
T_E007 == <<"E","0","0","7">>
T_E008 == <<"E","0","0","8">>
T_abc == <<"a","b","c">>
T_20000 == <<"2","0","0","0","0">>
BlankBasicRow == <<StrCell(T_E004), StrCell(T_Asha), StrCell(T_Clerk),
                   NaN, IntCell(8000), IntCell(28000), IntCell(30), IntCell(0)>>
ShortMonthRow == <<StrCell(T_E002), StrCell(T_Ravi), StrCell(T_Engineer),
                   IntCell(9000), IntCell(6000), IntCell(15000), IntCell(29), IntCell(0)>>
TextBasicRow == <<StrCell(T_E006), StrCell(T_Meena), StrCell(T_Clerk),
                  StrCell(T_abc), IntCell(8000), IntCell(28000), IntCell(30), IntCell(0)>>
NumeralBasicRow == <<StrCell(T_E007), StrCell(T_Meena), StrCell(T_Clerk),
                     StrCell(T_20000), IntCell(8000), IntCell(28000), IntCell(30), IntCell(0)>>
NegativeDaysRow == <<StrCell(T_E008), StrCell(T_Meena), StrCell(T_Clerk),
                     IntCell(20000), IntCell(8000), IntCell(28000),
                     FloatCell(Dec(-25, 1)), IntCell(0)>>
BlankTdsRow == <<StrCell(T_E003), StrCell(T_Meena), StrCell(T_Clerk),
                 IntCell(20000), IntCell(8000), IntCell(28000), IntCell(30), NaN>>

\* A sheet with no gross and no days column, and an id column after "ID Card".
LooseColumns == <<L_Name, L_IDCard, L_EmpCode, L_BasicDA, L_HRA, L_OtherAllowance>>
LooseRow1 == <<StrCell(T_Asha), IntCell(7001), StrCell(T_E001),
               IntCell(10000), IntCell(4000), IntCell(1000)>>
LooseRow2 == <<StrCell(T_Ravi), IntCell(7002), StrCell(T_E002),
               IntCell(14000), IntCell(6000), IntCell(1000)>>

AttendanceColumns == <<L_EmpCode, L_Present, L_PaidLeave, L_LOP, L_Remaining>>
AttendanceRow1 == <<StrCell(T_E001), IntCell(28), IntCell(1), IntCell(1), IntCell(8)>>
AttendanceRow2 == <<StrCell(<<"e","0","0","2">>), IntCell(30), IntCell(0), IntCell(0), IntCell(12)>>
\* An attendance row of another employee whose number contains 7002.
AttendanceRow3 == <<IntCell(170020), IntCell(30), IntCell(0), IntCell(0), IntCell(12)>>
\* An attendance row of half a day: the table is one of floats, printed with
\* exponents ('7.0021e+04'), and the number no longer contains 7002.
AttendanceRow4 == <<IntCell(70021), FloatCell(Dec(285, 1)), IntCell(0), IntCell(0), IntCell(12)>>

Sheet(name, columns, rows) == [name |-> name, columns |-> columns, rows |-> rows]
Workbook(sheets) == [readable |-> TRUE, sheets |-> sheets]
Unreadable == [readable |-> FALSE, sheets |-> <<>>]

SalarySheet == Sheet(N_Salary, SalaryColumns, <<SalaryRow1, BlankRow8, SalaryRow2, SalaryRow3>>)
LooseSheet == Sheet(N_Sheet1, LooseColumns, <<LooseRow1, LooseRow2>>)
AttendanceSheet == Sheet(N_Attendance, AttendanceColumns, <<AttendanceRow1, AttendanceRow2>>)
OtherAttendanceSheet == Sheet(N_Attendance, AttendanceColumns, <<AttendanceRow3>>)
HalfDayAttendanceSheet == Sheet(N_Attendance, AttendanceColumns, <<AttendanceRow4>>)
OddSheet == Sheet(N_Salary, SalaryColumns,
                  <<BlankBasicRow, ShortMonthRow, TextBasicRow, NumeralBasicRow,
                    NegativeDaysRow, BlankTdsRow>>)
EmptyAttendanceSheet == Sheet(N_Attendance, AttendanceColumns, <<>>)
\* A sheet that is named like attendance and has a salary column.
AttenPaySheet == Sheet(N_AttenPay, LooseColumns, <<LooseRow1>>)
\* A sheet whose salary labels are longer than the keywords.
LongLabelSheet ==
    Sheet(N_Sheet1, <<L_EmpCode, L_BasicDA, L_GrossSalary>>,
          <<<<StrCell(T_E003), IntCell(12000), IntCell(21000)>>>>)

\* A month of the HR's choosing for the month field of an upload.
T_January_2026 == <<"J","a","n","u","a","r","y"," ","2","0","2","6">>

\* A workbook whose basic pay is text: it loads, and the employee list raises.
TextBasicFile == Workbook(<<Sheet(N_Salary, SalaryColumns, <<TextBasicRow>>)>>)

\* The most rows a salary sheet of the engine's workbooks has.
MaxRows == 6

\* A sheet without cells.
BlankSheet == Sheet(N_Sheet1, <<>>, <<>>)
\* A sheet whose TDS column holds the texts for true and false.
T_TRUE == <<"T","R","U","E">>
T_False == <<"F","a","l","s","e">>
BoolSheet ==
    Sheet(N_Salary, <<L_EmpCode, L_Basic, L_HRA, L_TDS>>,
          << <<StrCell(T_E006), IntCell(20000), IntCell(8000), StrCell(T_TRUE)>>,
             <<StrCell(T_E007), IntCell(15000), IntCell(6000), StrCell(T_False)>> >>)
\* A sheet of numbers only, with 2^40 and 2^63 as basic pay.
LongSheet ==
    Sheet(N_Salary, <<L_EmpCode, L_Basic, L_HRA>>,
          << <<IntCell(7001), FloatCell(Finite(1, <<1>>, 40)), IntCell(8000)>>,
             <<IntCell(7002), FloatCell(Finite(1, <<1>>, 63)), IntCell(6000)>> >>)

AgentFiles ==
    { Workbook(<<SalarySheet>>),
      Workbook(<<SalarySheet, BlankSheet>>),
      Workbook(<<BoolSheet>>),
      Workbook(<<LongSheet>>),
      Workbook(<<AttendanceSheet, Sheet(N_SalaryMain, SalaryColumns, SalarySheet.rows)>>),
      Workbook(<<SalarySheet, EmptyAttendanceSheet>>),
      Workbook(<<LooseSheet, OtherAttendanceSheet>>),
      Workbook(<<LooseSheet, HalfDayAttendanceSheet>>),
      Workbook(<<Sheet(N_Sheet1, <<L_EmpCode, L_BasicDA, L_GrossSalary>>, <<>>)>>),
      Workbook(<<SalarySheet, AttendanceSheet, AttenPaySheet>>),
      Workbook(<<AttenPaySheet, AttendanceSheet, LooseSheet>>),
      Workbook(<<SalarySheet, LongLabelSheet>>),
      Workbook(<<OddSheet>>),
      Unreadable }

PolicyChoices ==
    { DefaultPolicies,
      [DefaultPolicies EXCEPT !.esi_threshold = FromInt(15000), !.pt_amount = FromInt(250),
                              !.pf_cap = FromInt(2000), !.leave_encashment = TRUE],
      [DefaultPolicies EXCEPT !.pf_rate = Dec(10, 2), !.esi_threshold = FromInt(28000),
                              !.leave_encashment = TRUE, !.encash_max_days = FromInt(15)] }

ResolveKeywords == {kw_name, kw_emp_id, kw_basic_da, kw_gross, kw_days_in_month, kw_email}
ResolveDefaults == {IntCell(0), StrCell(Unknown)}

(***************************************************************************)
(* State.                                                                  *)
(*   data, policies  the fields of one PayrollAgent instance               *)
(*   pdf_dir         the payslip directory: path -> rendered dict          *)
(*   clock           the month of datetime.now()                           *)
(*   users, employees, batches, payslips, policy_rows   the database tables *)
(*   uploads         the upload directory: batch file path -> file         *)
(*   tokens          the e-mails access tokens were issued for             *)
(*   autoflush       the session's autoflush setting                       *)
(*   last            the last call and what it returned or raised          *)
(***************************************************************************)
VARIABLES data, policies, pdf_dir, clock,
          users, employees, batches, payslips, policy_rows, uploads, tokens,
          autoflush, last

agentVars == <<data, policies>>
dbVars == <<users, employees, batches, payslips, policy_rows, uploads, tokens, autoflush>>
vars == <<data, policies, pdf_dir, clock,
          users, employees, batches, payslips, policy_rows, uploads, tokens,
          autoflush, last>>

(***************************************************************************)
(* The engine on its own: one PayrollAgent and the calls made on it.       *)
(***************************************************************************)
\* PayrollAgent.__init__
AgentInit ==
    /\ data = <<>>
    /\ policies = DefaultPolicies
    /\ pdf_dir = <<>>
    /\ clock = 0
    /\ users = <<>>
    /\ employees = <<>>
    /\ batches = <<>>
    /\ payslips = {}
    /\ policy_rows = <<>>
    /\ uploads = <<>>
    /\ tokens = {}
    /\ autoflush = FALSE
    /\ last = [op |-> "init"]

LoadUploadedExcel(file) ==
    LET answered(r) ==
            /\ data' = r.data
            /\ last' = [op |-> "load_uploaded_excel", file |-> file, ok |-> r.ok,
                         before |-> data]
            /\ UNCHANGED <<policies, pdf_dir, clock, dbVars>>
    IN  answered(load_uploaded_excel(data, file))

SetPoliciesDirect(new) ==
    /\ policies' = set_policies_direct(policies, new)
    /\ last' = [op |-> "set_policies_direct"]
    /\ UNCHANGED <<data, pdf_dir, clock, dbVars>>

\* calculate_payroll on row i of the loaded salary table.
CalculatePayroll(i) ==
    /\ "salary" \in DOMAIN data
    /\ i \in 1..Len(data.salary.rows)
    /\ last' = [ op |-> "calculate_payroll",
                 emp_row |-> iloc(data.salary, i),
                 result |-> calculate_payroll(data, policies,
                               iloc(data.salary, i), clock) ]
    /\ UNCHANGED <<agentVars, pdf_dir, clock, dbVars>>

\* The column resolver on row i of the loaded salary table.
ResolveColumn(i, col_keywords, default) ==
    /\ "salary" \in DOMAIN data
    /\ i \in 1..Len(data.salary.rows)
    /\ last' = [ op |-> "get",
                 emp_row |-> iloc(data.salary, i),
                 col_keywords |-> col_keywords,
                 default |-> default,
                 value |-> get(iloc(data.salary, i),
                               col_keywords, default) ]
    /\ UNCHANGED <<agentVars, pdf_dir, clock, dbVars>>

Tick ==
    /\ clock < MaxNow
    /\ clock' = clock + 1
    /\ last' = [op |-> "tick"]
    /\ UNCHANGED <<agentVars, pdf_dir, dbVars>>

AgentNext ==
    \/ \E file \in AgentFiles : LoadUploadedExcel(file)
    \/ \E new \in PolicyChoices : SetPoliciesDirect(new)
    \/ \E i \in 1..MaxRows : CalculatePayroll(i)
    \/ \E i \in 1..3, k \in ResolveKeywords, d \in ResolveDefaults : ResolveColumn(i, k, d)
    \/ Tick

AgentSpec == AgentInit /\ [][AgentNext]_vars

(***************************************************************************)
(* The database (models/entities.py). A table is a sequence of rows in id  *)
(* order, the id of a row being its position, except payslips, which are   *)
(* deleted and re-created: a set of rows carrying their ids. A NULL id is  *)
(* 0, a NULL text is <<>>, a NULL time is <<>>.                            *)
(***************************************************************************)
DEFAULT_HR_EMAIL == <<"a","d","m","i","n","@","c","o","m","p","a","n","y",".","c","o","m">>
DEFAULT_HR_PASSWORD == <<"a","d","m","i","n","1","2","3">>
DEFAULT_HR_NAME == <<"H","R"," ","A","d","m","i","n","i","s","t","r","a","t","o","r">>

\* get_password_hash / verify_password: bcrypt of the first 72 characters.
get_password_hash(password) ==
    LET truncated == IF Len(password) > 72 THEN SubSeq(password, 1, 72) ELSE password
    IN  [bcrypt |-> truncated]
verify_password(plain_password, hashed_password) ==
    hashed_password = get_password_hash(plain_password)

\* AuthService.create_hr_admin on an empty users table.
HrAdmin ==
    [ id |-> 1, email |-> DEFAULT_HR_EMAIL,
      password_hash |-> get_password_hash(DEFAULT_HR_PASSWORD),
      name |-> DEFAULT_HR_NAME, role |-> "HR", emp_id |-> <<>>,
      can_login |-> TRUE, is_active |-> TRUE ]

Range(seq) == {seq[i] : i \in 1..Len(seq)}

\* query(...).filter(...).first() on a table kept in id order: the matching
\* row with the least id, or the given NULL.
First(rows, null) ==
    IF rows = {} THEN null
    ELSE CHOOSE r \in rows : \A q \in rows : r.id <= q.id
NoRow == [id |-> 0]

user_by_email(db_users, email) ==
    First({u \in Range(db_users) : u.email = email}, NoRow)
user_by_emp_id(db_users, emp_id) ==
    First({u \in Range(db_users) : u.emp_id = emp_id}, NoRow)
batch_by_id(db_batches, batch_id) ==
    IF batch_id \in 1..Len(db_batches) THEN db_batches[batch_id] ELSE NoRow

\* PayrollService.get_current_batch: the most recently created batch.
get_current_batch(db_batches) ==
    IF db_batches = <<>> THEN NoRow ELSE db_batches[Len(db_batches)]

\* The id SQLite gives the next payslip row: one more than the greatest.
next_payslip_id(db_payslips) ==
    IF db_payslips = {} THEN 1
    ELSE 1 + (CHOOSE n \in {p.id : p \in db_payslips} :
                \A q \in db_payslips : q.id <= n)

get_employee_payslip_mutant_any_status(db_batches, db_payslips, emp_id) ==
    LET rows == {p \in db_payslips : p.emp_id = emp_id}
    IN  {p \in rows : \A q \in rows : q.created_at <= p.created_at}

\* PayrollService.get_employee_payslip: the rows .first() may return, i.e. the
\* newest payslips of the employee in APPROVED batches (none: the empty set).
get_employee_payslip(db_batches, db_payslips, emp_id) ==
    LET rows == {p \in db_payslips : /\ p.emp_id = emp_id
                                     /\ db_batches[p.batch_id].status = "APPROVED"}
    IN  {p \in rows : \A q \in rows : q.created_at <= p.created_at}

(***************************************************************************)
(* AuthService and the access checks of auth/jwt_handler.py.               *)
(***************************************************************************)
\* AuthService.login: the user a token is issued for, or NoRow (None).
auth_login(db_users, email, password) ==
    LET user == user_by_email(db_users, email)
    IN  IF user.id = 0 THEN NoRow
        ELSE IF ~verify_password(password, user.password_hash) THEN NoRow
        ELSE IF ~user.is_active THEN NoRow
        ELSE user

\* AuthService.change_password: whether the user was found, and the users
\* table afterwards.
change_password(db_users, user_id, new_password) ==
    IF user_id \notin 1..Len(db_users) THEN [ok |-> FALSE, users |-> db_users]
    ELSE [ ok |-> TRUE,
           users |-> [db_users EXCEPT ![user_id].password_hash =
                                          get_password_hash(new_password)] ]

\* get_current_user: the HTTP status raised (200: none) for a token's e-mail.
get_current_user_status(db_users, email) ==
    LET user == user_by_email(db_users, email)
    IN  IF user.id = 0 THEN 401 ELSE IF ~user.is_active THEN 403 ELSE 200

get_current_hr_status(db_users, email) ==
    IF get_current_user_status(db_users, email) # 200
    THEN get_current_user_status(db_users, email)
    ELSE IF user_by_email(db_users, email).role # "HR" THEN 403 ELSE 200

get_current_employee_status(db_users, email) ==
    IF get_current_user_status(db_users, email) # 200
    THEN get_current_user_status(db_users, email)
    ELSE IF user_by_email(db_users, email).role # "EMPLOYEE" THEN 403
    ELSE IF ~user_by_email(db_users, email).can_login THEN 403
    ELSE 200

require_hr_or_own_data_mutant_any_employee(current_user, target_emp_id) ==
    current_user.role = "HR" \/ current_user.role = "EMPLOYEE"

\* require_hr_or_own_data: TRUE when it returns, FALSE when it raises 403.
require_hr_or_own_data(current_user, target_emp_id) ==
    \/ current_user.role = "HR"
    \/ (current_user.role = "EMPLOYEE" /\ current_user.emp_id = target_emp_id)

(***************************************************************************)
(* PayrollService. Every request builds its own PayrollService, hence its  *)
(* own PayrollAgent: empty data and the default policies. An operation     *)
(* yields err ("none", or the exception that leaves it) and the tables as  *)
(* committed; an exception other than ValueError is not caught by the      *)
(* routes, and the session's pending changes are lost with it.             *)
(***************************************************************************)
\* A float as SQLite stores it and hands it back: NaN is stored as NULL, and
\* a zero without its sign.
Stored(x) == IF IsNan(x) THEN <<>> ELSE IF IsZero(x) THEN Zero(1) ELSE x

\* A column of the policies table for the value given to Policy(...): the
\* column's default for None, which the insert leaves out.
PolicyColumn(x, default) == IF x = <<>> THEN default ELSE Stored(x)
\* The same for the Boolean column, None being <<>>.
PolicyFlag(x, default) == IF ToString(x) \in {"TRUE", "FALSE"} THEN x ELSE default

\* def get_active_policy(self)
get_active_policy(db_policies) ==
    First({p \in Range(db_policies) : p.is_active}, NoRow)

apply_policy_to_agent_mutant_text_only(agent_policies, policy) ==
    LET direct == set_policies_direct(agent_policies,
                     [ pf_rate |-> policy.pf_rate, pf_cap |-> policy.pf_cap,
                       esi_employee_rate |-> policy.esi_employee_rate,
                       esi_threshold |-> policy.esi_threshold,
                       pt_amount |-> policy.pt_amount,
                       leave_encashment |-> policy.leave_encashment,
                       encash_max_days |-> policy.encash_max_days ])
    IN  IF policy.policy_text # <<>> THEN update_policy(agent_policies, policy.policy_text)
        ELSE direct

\* def _apply_policy_to_agent(self, policy): the agent's policies afterwards.
apply_policy_to_agent(agent_policies, policy) ==
    LET direct == set_policies_direct(agent_policies,
                     [ pf_rate |-> policy.pf_rate, pf_cap |-> policy.pf_cap,
                       esi_employee_rate |-> policy.esi_employee_rate,
                       esi_threshold |-> policy.esi_threshold,
                       pt_amount |-> policy.pt_amount,
                       leave_encashment |-> policy.leave_encashment,
                       encash_max_days |-> policy.encash_max_days ])
    IN  IF policy.policy_text # <<>> THEN update_policy(direct, policy.policy_text)
        ELSE direct

create_or_update_policy_mutant_keeps_active(db_policies, policy_data) ==
    Append(db_policies,
           [ id |-> Len(db_policies) + 1,
             pf_rate |-> PolicyColumn(policy_data.pf_rate, Dec(12, 2)),
             pf_cap |-> PolicyColumn(policy_data.pf_cap, FromInt(1800)),
             esi_employee_rate |-> PolicyColumn(policy_data.esi_employee_rate, Dec(75, 4)),
             esi_threshold |-> PolicyColumn(policy_data.esi_threshold, FromInt(21000)),
             pt_amount |-> PolicyColumn(policy_data.pt_amount, FromInt(200)),
             leave_encashment |-> PolicyFlag(policy_data.leave_encashment, FALSE),
             encash_max_days |-> PolicyColumn(policy_data.encash_max_days, FromInt(10)),
             policy_text |-> policy_data.policy_text, is_active |-> TRUE ])

\* def create_or_update_policy(self, policy_data): the policies table afterwards.
create_or_update_policy(db_policies, policy_data) ==
    Append([i \in 1..Len(db_policies) |-> [db_policies[i] EXCEPT !.is_active = FALSE]],
           [ id |-> Len(db_policies) + 1,
             pf_rate |-> PolicyColumn(policy_data.pf_rate, Dec(12, 2)),
             pf_cap |-> PolicyColumn(policy_data.pf_cap, FromInt(1800)),
             esi_employee_rate |-> PolicyColumn(policy_data.esi_employee_rate, Dec(75, 4)),
             esi_threshold |-> PolicyColumn(policy_data.esi_threshold, FromInt(21000)),
             pt_amount |-> PolicyColumn(policy_data.pt_amount, FromInt(200)),
             leave_encashment |-> PolicyFlag(policy_data.leave_encashment, FALSE),
             encash_max_days |-> PolicyColumn(policy_data.encash_max_days, FromInt(10)),
             policy_text |-> policy_data.policy_text, is_active |-> TRUE ])

\* Lines 144-147: the policies of the service's agent once the active policy,
\* if there is one, has been applied to them.
request_policies(agent_policies, db_policies) ==
    IF get_active_policy(db_policies).id = 0 THEN agent_policies
    ELSE apply_policy_to_agent(agent_policies, get_active_policy(db_policies))

\* self.agent.load_uploaded_excel(path) for a path of the upload directory:
\* pd.ExcelFile raises on a path with no file, which the loader answers with
\* False like every other exception.
file_load(agent_data, files, excel_file_path) ==
    IF excel_file_path \in DOMAIN files
    THEN load_uploaded_excel(agent_data, files[excel_file_path])
    ELSE [ok |-> FALSE, data |-> agent_data]

\* Lines 149-152: the data of the service's agent once the batch's file, if
\* it exists, has been loaded again; the value load_uploaded_excel returns is
\* dropped, so a load that fails leaves the agent with the data it had.
reloaded(agent_data, files, excel_file_path) ==
    IF excel_file_path \in DOMAIN files
    THEN file_load(agent_data, files, excel_file_path).data
    ELSE agent_data

RECURSIVE unique_emp_ids(_, _)
unique_emp_ids(taken, employees_data) ==
    IF employees_data = <<>> THEN TRUE
    ELSE /\ Head(employees_data).emp_id \notin taken
         /\ unique_emp_ids(taken \cup {Head(employees_data).emp_id}, Tail(employees_data))

employee_row(emp_data, id, batch_id) ==
    [ id |-> id, emp_id |-> emp_data.emp_id, name |-> emp_data.name,
      designation |-> emp_data.designation, department |-> emp_data.department,
      email |-> emp_data.email, basic_da |-> Stored(emp_data.basic_da),
      hra |-> Stored(emp_data.hra),
      other_allowances |-> Stored(emp_data.other_allowances),
      gross_salary |-> Stored(emp_data.gross_salary), batch_id |-> batch_id ]

\* def upload_excel(self, file_path, month=None); month is <<>> for None and
\* <<text>> for a text. The batch is committed (line 102) before the employee
\* list is read (line 106) and before the employees are added and committed
\* (lines 109-125): what fails after line 102 leaves the batch behind.
\* Lines 95-102: the batch created for the file.
new_batch(db_batches, file_path, month, now) ==
    [ id |-> Len(db_batches) + 1,
      month |-> IF month = <<>> THEN MonthLabel(now) ELSE month[1],
      excel_file_path |-> file_path, status |-> "DRAFT",
      total_employees |-> 0, total_amount |-> FromInt(0),
      approved_by |-> 0, approved_at |-> <<>> ]
\* Lines 109-125: the employees added for the list get_employee_list returned.
employees_stored(db_employees, db_batches, batch, employees_data) ==
    IF ~unique_emp_ids({e.emp_id : e \in Range(db_employees)}, employees_data)
    THEN [ err |-> "IntegrityError", employees |-> db_employees,
           batches |-> Append(db_batches, batch) ]
    ELSE [ err |-> "none",
           employees |-> db_employees \o
               [i \in 1..Len(employees_data) |->
                   employee_row(employees_data[i], Len(db_employees) + i, batch.id)],
           batches |-> Append(db_batches,
               [batch EXCEPT !.total_employees = Len(employees_data)]) ]
\* Lines 90-125, loaded being what load_uploaded_excel returned.
upload_loaded(db_employees, db_batches, batch, loaded) ==
    IF ~loaded.ok
    THEN [err |-> "ValueError", employees |-> db_employees, batches |-> db_batches]
    ELSE IF get_employee_list_raises(loaded.data)
    THEN [ err |-> "ValueError", employees |-> db_employees,
           batches |-> Append(db_batches, batch) ]
    ELSE employees_stored(db_employees, db_batches, batch, get_employee_list(loaded.data))
upload_excel(db_employees, db_batches, file_path, file, month, now) ==
    upload_loaded(db_employees, db_batches, new_batch(db_batches, file_path, month, now),
                  load_uploaded_excel(<<>>, file))

payslip_row(result, id, employee, batch_id, now) ==
    [ id |-> id, user_id |-> 0, employee_id |-> employee.id, batch_id |-> batch_id,
      emp_id |-> result.emp_id, name |-> result.name, designation |-> result.designation,
      month |-> result.month, present_days |-> Stored(result.present_days),
      approved_paid_leaves |-> Stored(result.approved_paid_leaves),
      lop_days |-> Stored(result.lop_days),
      payable_days |-> Stored(result.payable_days),
      remaining_leaves |-> Stored(result.remaining_leaves),
      basic_da |-> Stored(result.basic_da), hra |-> Stored(result.hra),
      other_allowances |-> Stored(result.other_allow), gross |-> Stored(result.gross),
      encashment |-> Stored(result.encashment), pf |-> Stored(result.pf),
      esi |-> Stored(result.esi), pt |-> Stored(result.pt), tds |-> Stored(result.tds),
      total_deductions |-> Stored(result.total_deductions),
      net_pay |-> Stored(result.net_pay), pdf_path |-> result.pdf_path,
      created_at |-> now ]

\* Lines 163-198: the payslips stored for the results from index i on.
RECURSIVE store_payslips(_, _, _, _, _, _, _)
store_payslips(db_employees, db_payslips, total_amount, payroll_results, i, batch_id, now) ==
    IF i > Len(payroll_results)
    THEN [payslips |-> db_payslips, total_amount |-> total_amount]
    ELSE
    LET result == payroll_results[i]
        employee == First({e \in Range(db_employees) :
                             e.emp_id = result.emp_id /\ e.batch_id = batch_id}, NoRow)
    IN  IF employee.id = 0
        THEN store_payslips(db_employees, db_payslips, total_amount, payroll_results,
                            i + 1, batch_id, now)
        ELSE store_payslips(db_employees,
                db_payslips \cup {payslip_row(result, next_payslip_id(db_payslips),
                                              employee, batch_id, now)},
                FloatAdd(total_amount, result.net_pay), payroll_results,
                i + 1, batch_id, now)

generate_status_check_mutant_no_approved_check(batch) ==
    IF batch.id = 0 THEN "Batch not found" ELSE "ok"

generate_status_check(batch) ==
    IF batch.id = 0 THEN "Batch not found"
    ELSE IF batch.status = "APPROVED" THEN "Batch already approved. Cannot regenerate."
    ELSE "ok"

\* Lines 157-208 of generate_all_payroll, gen being what generate_all_payslips
\* returned or raised.
store_generated(db_employees, db_batches, db_payslips, batch_id, now, gen) ==
    LET stored == store_payslips(db_employees,
                                 {p \in db_payslips : p.batch_id # batch_id},
                                 FromInt(0), gen.results, 1, batch_id, now)
    IN  IF gen.err # "none"
        THEN [ err |-> gen.err, detail |-> gen.err,
               batches |-> db_batches, payslips |-> db_payslips, dir |-> gen.dir,
               payslips_generated |-> 0 ]
        ELSE [ err |-> "none", detail |-> "ok",
               batches |-> [db_batches EXCEPT
                              ![batch_id].status = "GENERATED",
                              ![batch_id].total_amount = Stored(stored.total_amount)],
               payslips |-> stored.payslips, dir |-> gen.dir,
               payslips_generated |-> Len(gen.results) ]

\* def generate_all_payroll(self, batch_id); nows are the readings of the clock
\* taken for the rows, now the time at which the payslips are stored.
generate_all_payroll(agent_data, agent_policies, db_policies, db_employees, db_batches, db_payslips, files, dir, batch_id, nows, now) ==
    LET batch == batch_by_id(db_batches, batch_id)
        same == [ err |-> "ValueError", detail |-> generate_status_check(batch),
                  batches |-> db_batches, payslips |-> db_payslips, dir |-> dir,
                  payslips_generated |-> 0 ]
    IN  IF generate_status_check(batch) # "ok" THEN same
        ELSE store_generated(db_employees, db_batches, db_payslips, batch_id, now,
                 generate_all_payslips(
                     reloaded(agent_data, files, batch.excel_file_path),
                     request_policies(agent_policies, db_policies), nows, dir))

\* The number of salary rows generate_all_payroll computes for the batch.
rows_to_read(agent_data, db_batches, files, batch_id) ==
    IF generate_status_check(batch_by_id(db_batches, batch_id)) # "ok" THEN 0
    ELSE RowCount(reloaded(agent_data, files,
                           batch_by_id(db_batches, batch_id).excel_file_path))

\* The e-mail of the account approve_payroll creates for an employee.
account_email(emp) ==
    IF emp.email # <<>> /\ Contains(<<"@">>, emp.email) THEN emp.email
    ELSE lower(emp.emp_id) \o <<"@","c","o","m","p","a","n","y",".","c","o","m">>

new_employee_user_mutant_login_disabled(emp, id) ==
    [ id |-> id, email |-> account_email(emp),
      password_hash |-> get_password_hash(emp.emp_id),
      name |-> emp.name, role |-> "EMPLOYEE", emp_id |-> emp.emp_id,
      can_login |-> FALSE, is_active |-> TRUE ]

\* Lines 237-244: the account created for an employee (is_active by default).
new_employee_user(emp, id) ==
    [ id |-> id, email |-> account_email(emp),
      password_hash |-> get_password_hash(emp.emp_id),
      name |-> emp.name, role |-> "EMPLOYEE", emp_id |-> emp.emp_id,
      can_login |-> TRUE, is_active |-> TRUE ]

\* Lines 230-258: the loop over the employees of the batch, from index i on.
\* A new user has no id until it is flushed: with autoflush the payslip query
\* flushes it, without it the payslip is linked to None.
RECURSIVE enable_employees(_, _, _, _, _, _)
enable_employees(db_users, db_payslips, batch_employees, i, batch_id, flush) ==
    IF i > Len(batch_employees)
    THEN [err |-> "none", users |-> db_users, payslips |-> db_payslips]
    ELSE
    LET emp == batch_employees[i]
        found == user_by_emp_id(db_users, emp.emp_id)
        created == new_employee_user(emp, Len(db_users) + 1)
        users2 == IF found.id = 0 THEN Append(db_users, created)
                  ELSE [db_users EXCEPT ![found.id].can_login = TRUE]
        link == IF found.id # 0 THEN found.id ELSE IF flush THEN created.id ELSE 0
        payslip == First({p \in db_payslips :
                            p.emp_id = emp.emp_id /\ p.batch_id = batch_id}, NoRow)
        payslips2 == IF payslip.id = 0 THEN db_payslips
                     ELSE (db_payslips \ {payslip}) \cup {[payslip EXCEPT !.user_id = link]}
    IN  IF found.id = 0 /\ \E u \in Range(db_users) : u.email = created.email
        THEN [err |-> "IntegrityError", users |-> db_users, payslips |-> db_payslips]
        ELSE enable_employees(users2, payslips2, batch_employees, i + 1, batch_id, flush)

approve_status_check_mutant_any_status(batch) ==
    IF batch.id = 0 THEN "Batch not found" ELSE "ok"

approve_status_check(batch) ==
    IF batch.id = 0 THEN "Batch not found"
    ELSE IF batch.status # "GENERATED" THEN "Batch must be generated before approval"
    ELSE "ok"

\* def approve_payroll(self, batch_id, approver_id)
approve_payroll(db_users, db_employees, db_batches, db_payslips, batch_id, approver_id, flush, now) ==
    LET batch == batch_by_id(db_batches, batch_id)
        same == [ err |-> "ValueError", detail |-> approve_status_check(batch),
                  users |-> db_users, batches |-> db_batches, payslips |-> db_payslips,
                  employees_enabled |-> 0 ]
    IN  IF approve_status_check(batch) # "ok" THEN same
        ELSE
        LET batch_employees == SelectSeq(db_employees, LAMBDA e : e.batch_id = batch_id)
            done == enable_employees(db_users, db_payslips, batch_employees, 1, batch_id, flush)
        IN  IF done.err # "none"
            THEN [same EXCEPT !.err = done.err, !.detail = done.err]
            ELSE [ err |-> "none", detail |-> "ok", users |-> done.users,
                   batches |-> [db_batches EXCEPT
                                  ![batch_id].status = "APPROVED",
                                  ![batch_id].approved_by = approver_id,
                                  ![batch_id].approved_at = <<now>>],
                   payslips |-> done.payslips,
                   employees_enabled |-> Len(batch_employees) ]

\* Lines 322-334 of regenerate_single_payslip, single being what
\* generate_single_payslip returned or raised.
single_stored(db_payslips, emp_id, batch_id, single) ==
    LET payslip == First({p \in db_payslips :
                            p.emp_id = emp_id /\ p.batch_id = batch_id}, NoRow)
    IN  IF single.err # "none"
        THEN [err |-> single.err, payslips |-> db_payslips, dir |-> single.dir]
        ELSE IF payslip.id = 0
        THEN [err |-> "none", payslips |-> db_payslips, dir |-> single.dir]
        ELSE [ err |-> "none",
               payslips |-> (db_payslips \ {payslip}) \cup
                   {[payslip EXCEPT !.net_pay = Stored(single.result.net_pay),
                                    !.pdf_path = single.result.pdf_path]},
               dir |-> single.dir ]

\* def regenerate_single_payslip(self, emp_id, batch_id)
regenerate_single_payslip(agent_data, agent_policies, db_policies, db_batches, db_payslips, files, dir, emp_id, batch_id, now) ==
    IF batch_by_id(db_batches, batch_id).id = 0
    THEN [err |-> "ValueError", payslips |-> db_payslips, dir |-> dir]
    ELSE single_stored(db_payslips, emp_id, batch_id,
             generate_single_payslip(
                 \* Line 319: the load is called whether or not the file exists,
                 \* and what it returns is dropped.
                 file_load(agent_data, files,
                           batch_by_id(db_batches, batch_id).excel_file_path).data,
                 request_policies(agent_policies, db_policies), now, dir, emp_id))

(***************************************************************************)
(* The portal: the requests of routes/*.py on one database. A caller is    *)
(* the e-mail of a token issued by /login. The path of an uploaded file,   *)
(* uploads/upload_<second>_<file name>, is kept as the pair of the second  *)
(* it was saved in and the file name. The uploads of Spec come one second  *)
(* or more apart; those of AuthSpec can share a second, and a path.        *)
(***************************************************************************)
M_e001 == <<"e","0","0","1","@","c","o","m","p","a","n","y",".","c","o","m">>
M_e002 == <<"e","0","0","2","@","c","o","m","p","a","n","y",".","c","o","m">>
T_E005 == <<"E","0","0","5">>
T_Divya == <<"D","i","v","y","a">>
F_xlsx == <<"p","a","y",".","x","l","s","x">>
F_csv == <<"p","a","y",".","c","s","v">>
\* A file name with a directory in it.
F_dir == <<"a","/","p","a","y",".","x","l","s","x">>

MailColumns == <<L_EmpCode, L_Name, L_Email, L_Basic, L_HRA, L_Gross, L_Days>>
MailRow5 == <<StrCell(T_E005), StrCell(T_Divya), StrCell(DEFAULT_HR_EMAIL),
              IntCell(9000), IntCell(6000), IntCell(15000), IntCell(30)>>

\* Two employees and no attendance; the first of them with a matching
\* attendance row; an employee whose e-mail is the HR account's; a file that
\* cannot be read.
\* The row of an employee whose basic pay is blank: the amounts computed
\* from it are NaN.
BlankBasicRow2 == <<StrCell(T_E002), StrCell(T_Ravi), StrCell(T_Engineer),
                    NaN, IntCell(6000), IntCell(15000), IntCell(30), IntCell(0)>>
PortalFiles ==
    { Workbook(<<Sheet(N_Salary, SalaryColumns, <<SalaryRow1, BlankRow8, BlankBasicRow2>>)>>),
      Workbook(<<Sheet(N_Salary, SalaryColumns, <<SalaryRow1>>), AttendanceSheet>>),
      Workbook(<<Sheet(N_Salary, MailColumns, <<MailRow5>>)>>),
      Unreadable }
FileNames == {F_xlsx, F_csv, F_dir}
\* The uploads requested: the files above without a month, and a workbook
\* whose basic pay is text for a month of the HR's choosing.
PortalUploads ==
    {<<file, <<>>>> : file \in PortalFiles} \cup {<<TextBasicFile, <<T_January_2026>>>>}
Logins ==
    { <<DEFAULT_HR_EMAIL, DEFAULT_HR_PASSWORD>>, <<DEFAULT_HR_EMAIL, T_E002>>,
      <<M_e001, T_E001>>, <<M_e001, T_E002>> }
\* The password an account is changed to: one of those tried above.
NewPasswords == {T_E002}
EmpIds == {T_E001, T_E002}
PolicyRequests ==
    { [ pf_rate |-> Dec(10, 2), pf_cap |-> FromInt(1500),
        esi_employee_rate |-> Dec(75, 4), esi_threshold |-> FromInt(28000),
        pt_amount |-> FromInt(200), leave_encashment |-> FALSE,
        encash_max_days |-> FromInt(10), policy_text |-> <<>> ] }

endswith(s, suffix) ==
    Len(s) >= Len(suffix) /\ SubSeq(s, Len(s) - Len(suffix) + 1, Len(s)) = suffix

\* The status of the response for the way a service call ended.
http_status(err) ==
    IF err = "none" THEN 200 ELSE IF err = "ValueError" THEN 400 ELSE 500

\* SessionLocal is made in models/database.py, which is not among the sources:
\* its autoflush setting is either of the two a sessionmaker can be given.
SessionAutoflush == BOOLEAN

\* app.py lifespan: init_db() and create_hr_admin() on a new database.
Init ==
    /\ data = <<>>
    /\ policies = DefaultPolicies
    /\ pdf_dir = <<>>
    /\ clock = 0
    /\ users = <<HrAdmin>>
    /\ employees = <<>>
    /\ batches = <<>>
    /\ payslips = {}
    /\ policy_rows = <<>>
    /\ uploads = <<>>
    /\ tokens = {}
    /\ autoflush \in SessionAutoflush
    /\ last = [op |-> "init"]

\* POST /api/auth/login
Login(email, password) ==
    LET token == auth_login(users, email, password)
        user == user_by_email(users, email)
        status == IF token.id # 0 THEN 200
                  ELSE IF user.id # 0 /\ ~user.can_login THEN 403
                  ELSE 401
    IN  /\ tokens' = IF status = 200 THEN tokens \cup {email} ELSE tokens
        /\ last' = [op |-> "login", email |-> email, password |-> password, status |-> status]
        /\ UNCHANGED <<agentVars, pdf_dir, clock, users, employees, batches, payslips,
                       policy_rows, uploads, autoflush>>

\* POST /api/auth/change-password: any user with a valid token, whatever the
\* role, replaces the password of their own account.
ChangePassword(caller, new_password) ==
    LET auth == get_current_user_status(users, caller)
        r == change_password(users, user_by_email(users, caller).id, new_password)
        status == IF auth # 200 THEN auth ELSE IF ~r.ok THEN 400 ELSE 200
    IN  /\ caller \in tokens
        /\ users' = IF auth = 200 THEN r.users ELSE users
        /\ last' = [op |-> "change_password", caller |-> caller, status |-> status]
        /\ UNCHANGED <<agentVars, pdf_dir, clock, employees, batches, payslips,
                       policy_rows, uploads, tokens, autoflush>>

UPLOAD_DIR == <<"u","p","l","o","a","d","s">>

\* datetime.now().strftime("%Y%m%d_%H%M%S"): fifteen characters, the same for
\* every request of one second.
T_Timestamp == <<"2","0","2","6","1","0","3","1","_","1","2","0","0","0","0">>

\* Lines 63-65 of the upload route: the name the file is saved under.
upload_filename(filename) ==
    <<"u","p","l","o","a","d","_">> \o T_Timestamp \o <<"_">> \o filename

\* The second of the latest upload that has left a file or a batch (0: none),
\* and the seconds the next upload of a file name can be saved in: a later
\* one, or that of the latest upload again, the path then being one in use.
Remove(f, k) == [x \in (DOMAIN f) \ {k} |-> f[x]]
SavedPaths == (DOMAIN uploads) \cup {b.excel_file_path : b \in Range(batches)}
LatestSecond == MaxOf({path[1] : path \in SavedPaths})
UploadSeconds(filename) ==
    {LatestSecond + 1} \cup (IF <<LatestSecond, filename>> \in SavedPaths
                              THEN {LatestSecond} ELSE {})

\* POST /api/upload-excel at a second of the clock. The file is saved before
\* the service is called, over the file of the same name saved in the same
\* second if there is one, and removed again when the service raises
\* ValueError; what the service has committed by then stays.
UploadExcel(caller, filename, file, month, second) ==
    LET auth == get_current_hr_status(users, caller)
        accepted == auth = 200 /\ (endswith(filename, <<".","x","l","s","x">>)
                                   \/ endswith(filename, <<".","x","l","s">>))
        saved == accepted /\ open_error(UPLOAD_DIR, {}, upload_filename(filename)) = "none"
        answered(r) ==
            LET status == IF auth # 200 THEN auth
                          ELSE IF ~accepted THEN 400
                          ELSE IF ~saved THEN 500
                          ELSE http_status(r.err)
            IN  /\ caller \in tokens
                /\ Len(batches) < MaxBatches
                /\ employees' = IF saved THEN r.employees ELSE employees
                /\ batches' = IF saved THEN r.batches ELSE batches
                /\ uploads' = IF ~saved THEN uploads
                              ELSE IF r.err = "ValueError"
                              THEN Remove(uploads, <<second, filename>>)
                              ELSE Put(uploads, <<second, filename>>, file)
                /\ last' = [op |-> "upload_excel", caller |-> caller, status |-> status]
                /\ UNCHANGED <<agentVars, pdf_dir, clock, users, payslips, policy_rows, tokens,
                               autoflush>>
    IN  answered(upload_excel(employees, batches, <<second, filename>>, file, month, clock))

\* PolicyResponse.model_validate(policy) and PayslipResponse.model_validate(
\* payslip): TRUE when the row has a value for every float and int the
\* schema requires, FALSE when the validation raises on a NULL.
PolicyResponse(policy) ==
    /\ policy.pf_rate # <<>> /\ policy.pf_cap # <<>>
    /\ policy.esi_employee_rate # <<>> /\ policy.esi_threshold # <<>>
    /\ policy.pt_amount # <<>> /\ policy.encash_max_days # <<>>
PayslipResponse(payslip) ==
    /\ payslip.present_days # <<>> /\ payslip.approved_paid_leaves # <<>>
    /\ payslip.lop_days # <<>> /\ payslip.payable_days # <<>>
    /\ payslip.remaining_leaves # <<>> /\ payslip.basic_da # <<>>
    /\ payslip.hra # <<>> /\ payslip.other_allowances # <<>>
    /\ payslip.gross # <<>> /\ payslip.encashment # <<>>
    /\ payslip.pf # <<>> /\ payslip.esi # <<>> /\ payslip.pt # <<>>
    /\ payslip.tds # <<>> /\ payslip.total_deductions # <<>>
    /\ payslip.net_pay # <<>>

\* POST /api/set-policy: the policy is committed before the response is made
\* of it.
SetPolicy(caller, policy_data) ==
    LET auth == get_current_hr_status(users, caller)
        rows == create_or_update_policy(policy_rows, policy_data)
    IN  /\ caller \in tokens
        /\ Len(policy_rows) < MaxPolicies
        /\ policy_rows' = IF auth = 200 THEN rows ELSE policy_rows
        /\ last' = [ op |-> "set_policy", caller |-> caller,
                     status |-> IF auth # 200 THEN auth
                                ELSE IF PolicyResponse(rows[Len(rows)]) THEN 200
                                ELSE 500 ]
        /\ UNCHANGED <<agentVars, pdf_dir, clock, users, employees, batches, payslips,
                       uploads, tokens, autoflush>>

\* The batch a request names: batch_id, or the latest batch for None (0).
requested_batch(db_batches, batch_id) ==
    IF batch_id = 0 THEN get_current_batch(db_batches).id ELSE batch_id

\* POST /api/generate-all
GenerateAllPayroll(caller, batch_id, nows) ==
    LET auth == get_current_hr_status(users, caller)
        id == requested_batch(batches, batch_id)
        answered(r) ==
            LET status == IF auth # 200 THEN auth ELSE IF id = 0 THEN 404 ELSE http_status(r.err)
            IN  /\ caller \in tokens
                /\ next_payslip_id(payslips) <= MaxPayslipId
                /\ IF auth = 200 /\ id # 0
                   THEN /\ batches' = r.batches
                        /\ payslips' = r.payslips
                        /\ pdf_dir' = r.dir
                        /\ clock' = After(clock, nows)
                   ELSE UNCHANGED <<batches, payslips, pdf_dir, clock>>
                /\ last' = [ op |-> "generate_all_payroll", caller |-> caller, batch_id |-> id,
                             status |-> status ]
                /\ UNCHANGED <<agentVars, users, employees, policy_rows, uploads, tokens,
                               autoflush>>
    IN  answered(generate_all_payroll(<<>>, DefaultPolicies, policy_rows, employees, batches,
                 payslips, uploads, pdf_dir, id, nows, After(clock, nows)))

\* POST /api/approve-payroll
ApprovePayroll(caller, batch_id) ==
    LET auth == get_current_hr_status(users, caller)
        id == requested_batch(batches, batch_id)
        answered(r) ==
            LET status == IF auth # 200 THEN auth ELSE IF id = 0 THEN 404 ELSE http_status(r.err)
            IN  /\ caller \in tokens
                /\ IF auth = 200 /\ id # 0
                   THEN /\ users' = r.users
                        /\ batches' = r.batches
                        /\ payslips' = r.payslips
                   ELSE UNCHANGED <<users, batches, payslips>>
                /\ last' = [ op |-> "approve_payroll", caller |-> caller, batch_id |-> id,
                             status |-> status ]
                /\ UNCHANGED <<agentVars, pdf_dir, clock, employees, policy_rows, uploads, tokens,
                               autoflush>>
    IN  answered(approve_payroll(users, employees, batches, payslips, id,
                 user_by_email(users, caller).id, autoflush, clock))

\* GET /api/employee/payslip
GetMyPayslip(caller) ==
    LET auth == get_current_employee_status(users, caller)
        current_user == user_by_email(users, caller)
        found == IF auth = 200 THEN get_employee_payslip(batches, payslips, current_user.emp_id)
                 ELSE {}
    IN  /\ caller \in tokens
        /\ \/ /\ found = {}
              /\ last' = [ op |-> "get_my_payslip", caller |-> caller,
                           status |-> IF auth # 200 THEN auth
                                      ELSE IF current_user.emp_id = <<>> THEN 400 ELSE 404,
                           payslip |-> NoRow ]
           \/ \E payslip \in found :
                 LET ok == current_user.emp_id # <<>> /\ PayslipResponse(payslip)
                 IN  last' = [ op |-> "get_my_payslip", caller |-> caller,
                               status |-> IF current_user.emp_id = <<>> THEN 400
                                          ELSE IF ok THEN 200 ELSE 500,
                               payslip |-> IF ok THEN payslip ELSE NoRow ]
        /\ UNCHANGED <<agentVars, pdf_dir, clock, dbVars>>

\* GET /api/employee/payslip/download
DownloadMyPayslip(caller) ==
    LET auth == get_current_employee_status(users, caller)
        current_user == user_by_email(users, caller)
        found == IF auth = 200 THEN get_employee_payslip(batches, payslips, current_user.emp_id)
                 ELSE {}
    IN  /\ caller \in tokens
        /\ \/ /\ found = {}
              /\ last' = [ op |-> "download_my_payslip", caller |-> caller,
                           status |-> IF auth # 200 THEN auth
                                      ELSE IF current_user.emp_id = <<>> THEN 400 ELSE 404,
                           payslip |-> NoRow ]
           \/ \E payslip \in found :
                 LET ok == /\ current_user.emp_id # <<>>
                           /\ payslip.pdf_path # <<>>
                           /\ payslip.pdf_path \in DOMAIN pdf_dir
                 IN  last' = [ op |-> "download_my_payslip", caller |-> caller,
                               status |-> IF current_user.emp_id = <<>> THEN 400
                                          ELSE IF ok THEN 200 ELSE 404,
                               payslip |-> IF ok THEN payslip ELSE NoRow ]
        /\ UNCHANGED <<agentVars, pdf_dir, clock, dbVars>>

\* GET /api/employee/payslip/{emp_id}
GetPayslipWithAuth(caller, emp_id) ==
    LET auth == get_current_user_status(users, caller)
        current_user == user_by_email(users, caller)
        denied == IF auth # 200 THEN auth
                  ELSE IF ~require_hr_or_own_data(current_user, emp_id) THEN 403
                  ELSE IF current_user.role = "EMPLOYEE" /\ ~current_user.can_login THEN 403
                  ELSE 200
        found == IF denied = 200 THEN get_employee_payslip(batches, payslips, emp_id) ELSE {}
    IN  /\ caller \in tokens
        /\ \/ /\ found = {}
              /\ last' = [ op |-> "get_payslip_with_auth", caller |-> caller,
                           emp_id |-> emp_id,
                           status |-> IF denied # 200 THEN denied ELSE 404,
                           payslip |-> NoRow ]
           \/ \E payslip \in found :
                 last' = [ op |-> "get_payslip_with_auth", caller |-> caller,
                           emp_id |-> emp_id,
                           status |-> IF PayslipResponse(payslip) THEN 200 ELSE 500,
                           payslip |-> IF PayslipResponse(payslip) THEN payslip
                                       ELSE NoRow ]
        /\ UNCHANGED <<agentVars, pdf_dir, clock, dbVars>>

Next ==
    \/ \E l \in Logins : Login(l[1], l[2])
    \/ \E caller \in tokens, filename \in FileNames, u \in PortalUploads :
          UploadExcel(caller, filename, u[1], u[2], LatestSecond + 1)
    \/ \E caller \in tokens, policy_data \in PolicyRequests : SetPolicy(caller, policy_data)
    \/ \E caller \in tokens, batch_id \in 0..(Len(batches) + 1) :
          \E nows \in Readings(clock, rows_to_read(<<>>, batches, uploads,
                                                   requested_batch(batches, batch_id)),
                                 MaxRequestNow) :
              GenerateAllPayroll(caller, batch_id, nows)
    \/ \E caller \in tokens, batch_id \in 0..(Len(batches) + 1) :
          ApprovePayroll(caller, batch_id)
    \/ \E caller \in tokens : GetMyPayslip(caller)
    \/ \E caller \in tokens : DownloadMyPayslip(caller)
    \/ \E caller \in tokens, emp_id \in EmpIds : GetPayslipWithAuth(caller, emp_id)

Spec == Init /\ [][Next]_vars

(***************************************************************************)
(* The accounts: logins and password changes, with the requests that       *)
(* create the employees' accounts.                                         *)
(***************************************************************************)
AuthFile == Workbook(<<Sheet(N_Salary, SalaryColumns, <<SalaryRow1, BlankRow8, SalaryRow2>>)>>)

AuthNext ==
    \/ \E l \in Logins : Login(l[1], l[2])
    \/ \E caller \in tokens, new_password \in NewPasswords :
          ChangePassword(caller, new_password)
    \/ \E caller \in tokens, second \in UploadSeconds(F_xlsx) :
          UploadExcel(caller, F_xlsx, AuthFile, <<>>, second)
    \/ \E caller \in tokens, batch_id \in 0..(Len(batches) + 1) :
          \E nows \in Readings(clock, rows_to_read(<<>>, batches, uploads,
                                                   requested_batch(batches, batch_id)),
                                 MaxRequestNow) :
              GenerateAllPayroll(caller, batch_id, nows)
    \/ \E caller \in tokens, batch_id \in 0..(Len(batches) + 1) :
          ApprovePayroll(caller, batch_id)

AuthSpec == Init /\ [][AuthNext]_vars

(***************************************************************************)
(* PayrollService on its own: the operations called directly on one        *)
(* database. data and policies are those of the agent of the service       *)
(* object the calls are made on (self.agent); a caller can go on with a    *)
(* new PayrollService at any time. The files of the upload directory can   *)
(* be damaged behind the service's back.                                   *)
(***************************************************************************)
T_E009 == <<"E","0","0","9">>
NoSalaryFile == Workbook(<<Sheet(N_Sheet1, <<L_EmpCode, L_Name>>, <<>>), AttendanceSheet>>)
ServiceFiles ==
    { Workbook(<<Sheet(N_Salary, SalaryColumns, <<SalaryRow1, BlankRow8, BlankBasicRow2>>)>>),
      Unreadable, NoSalaryFile }
ServiceUploads ==
    {<<file, <<>>>> : file \in ServiceFiles} \cup {<<TextBasicFile, <<T_January_2026>>>>}
ServiceEmpIds == {T_E001, T_E009}

\* What became of the load of an operation: it was not called, or it
\* returned True ("ok") or False ("failed").
load_outcome(called, loaded) ==
    IF ~called THEN "not called" ELSE IF loaded.ok THEN "ok" ELSE "failed"
NotLoaded == [ok |-> FALSE, data |-> data]

\* PayrollService(db): a new service object with a new agent.
NewPayrollService ==
    /\ data # <<>> \/ policies # DefaultPolicies
    /\ data' = <<>>
    /\ policies' = DefaultPolicies
    /\ last' = [op |-> "PayrollService", err |-> "none"]
    /\ UNCHANGED <<pdf_dir, clock, dbVars>>

\* upload_excel(file_path) on a file the caller has saved under a path of its
\* own for the batch to come; the service leaves the file where it is,
\* however the call ends.
SvcUploadExcel(file, month) ==
    LET answered(r, loaded) ==
            /\ Len(batches) < MaxBatches
            /\ data' = loaded.data
            /\ employees' = r.employees
            /\ batches' = r.batches
            /\ uploads' = Put(uploads, Len(batches) + 1, file)
            /\ last' = [ op |-> "upload_excel", err |-> r.err,
                         loaded |-> load_outcome(TRUE, loaded) ]
            /\ UNCHANGED <<policies, pdf_dir, clock, users, payslips, policy_rows, tokens,
                           autoflush>>
    IN  answered(upload_excel(employees, batches, Len(batches) + 1, file, month, clock),
                 load_uploaded_excel(data, file))

\* generate_all_payroll(batch_id): the load is called when the checks are
\* passed and the file of the batch exists (lines 149-152).
SvcGenerateAllPayroll(batch_id, nows) ==
    LET passed == generate_status_check(batch_by_id(batches, batch_id)) = "ok"
        called == passed /\ batch_by_id(batches, batch_id).excel_file_path \in DOMAIN uploads
        answered(r, loaded) ==
            /\ next_payslip_id(payslips) <= MaxPayslipId
            /\ data' = IF called THEN loaded.data ELSE data
            /\ policies' = IF passed THEN request_policies(policies, policy_rows) ELSE policies
            /\ batches' = r.batches
            /\ payslips' = r.payslips
            /\ pdf_dir' = r.dir
            /\ clock' = After(clock, nows)
            /\ last' = [ op |-> "generate_all_payroll", err |-> r.err, batch_id |-> batch_id,
                         loaded |-> load_outcome(called, loaded) ]
            /\ UNCHANGED <<users, employees, policy_rows, uploads, tokens, autoflush>>
    IN  answered(generate_all_payroll(data, policies, policy_rows, employees, batches,
                 payslips, uploads, pdf_dir, batch_id, nows,
                 After(clock, nows)),
                 IF called
                 THEN file_load(data, uploads, batch_by_id(batches, batch_id).excel_file_path)
                 ELSE NotLoaded)

SvcApprovePayroll(batch_id) ==
    LET answered(r) ==
            /\ users' = r.users
            /\ batches' = r.batches
            /\ payslips' = r.payslips
            /\ last' = [op |-> "approve_payroll", err |-> r.err, batch_id |-> batch_id]
            /\ UNCHANGED <<agentVars, pdf_dir, clock, employees, policy_rows, uploads, tokens,
                           autoflush>>
    IN  answered(approve_payroll(users, employees, batches, payslips, batch_id, HrAdmin.id,
                 autoflush, clock))

\* regenerate_single_payslip(emp_id, batch_id): the load is called once the
\* batch is found (line 319).
SvcRegenerateSinglePayslip(emp_id, batch_id) ==
    LET found == batch_by_id(batches, batch_id).id # 0
        answered(r, loaded) ==
            /\ data' = IF found THEN loaded.data ELSE data
            /\ policies' = IF found THEN request_policies(policies, policy_rows) ELSE policies
            /\ payslips' = r.payslips
            /\ pdf_dir' = r.dir
            /\ last' = [ op |-> "regenerate_single_payslip", err |-> r.err,
                         batch_id |-> batch_id, emp_id |-> emp_id,
                         loaded |-> load_outcome(found, loaded) ]
            /\ UNCHANGED <<clock, users, employees, batches, policy_rows, uploads, tokens,
                           autoflush>>
    IN  answered(regenerate_single_payslip(data, policies, policy_rows, batches, payslips,
                 uploads, pdf_dir, emp_id, batch_id, clock),
                 IF found
                 THEN file_load(data, uploads, batch_by_id(batches, batch_id).excel_file_path)
                 ELSE NotLoaded)

\* The file of a batch is overwritten with one that cannot be read.
FileDamaged(path) ==
    /\ path \in DOMAIN uploads
    /\ uploads[path] # Unreadable
    /\ uploads' = [uploads EXCEPT ![path] = Unreadable]
    /\ last' = [op |-> "file_damaged", err |-> "none"]
    /\ UNCHANGED <<agentVars, pdf_dir, clock, users, employees, batches, payslips,
                   policy_rows, tokens, autoflush>>

\* The file of a batch is removed from the upload directory.
FileRemoved(path) ==
    /\ path \in DOMAIN uploads
    /\ uploads' = Remove(uploads, path)
    /\ last' = [op |-> "file_removed", err |-> "none"]
    /\ UNCHANGED <<agentVars, pdf_dir, clock, users, employees, batches, payslips,
                   policy_rows, tokens, autoflush>>

ServiceNext ==
    \/ NewPayrollService
    \/ \E u \in ServiceUploads : SvcUploadExcel(u[1], u[2])
    \/ \E batch_id \in 1..(Len(batches) + 1) :
          \E nows \in Readings(clock, rows_to_read(data, batches, uploads, batch_id),
                                 MaxRequestNow) :
              SvcGenerateAllPayroll(batch_id, nows)
    \/ \E batch_id \in 1..(Len(batches) + 1) : SvcApprovePayroll(batch_id)
    \/ \E emp_id \in ServiceEmpIds, batch_id \in 1..(Len(batches) + 1) :
          SvcRegenerateSinglePayslip(emp_id, batch_id)
    \/ \E batch \in Range(batches) : FileDamaged(batch.excel_file_path)
    \/ \E batch \in Range(batches) : FileRemoved(batch.excel_file_path)

ServiceSpec == Init /\ [][ServiceNext]_vars

(***************************************************************************)
(* PayrollService and the policy: the operations called on one database    *)
(* while the policy is set again and again.                                *)
(***************************************************************************)
NT_all_three == <<"p","f"," ","c","a","p"," ","2","0","0","0",","," ","P","T"," ","2","5","0",","," ","l","e","a","v","e"," ","e","n","c","a","s","h","m","e","n","t">>
PolicyServiceFiles == { Workbook(<<Sheet(N_Salary, SalaryColumns, <<SalaryRow1>>)>>) }
\* A request whose PF cap is NaN, whose professional tax is -0.0 and whose
\* leave encashment is None.
NullsRequest ==
    [ pf_rate |-> Dec(12, 2), pf_cap |-> Nan,
      esi_employee_rate |-> Dec(75, 4), esi_threshold |-> FromInt(21000),
      pt_amount |-> Zero(-1), leave_encashment |-> <<>>,
      encash_max_days |-> FromInt(10), policy_text |-> <<>> ]

\* The other requests made of the service: that of the portal and one with a
\* note for all three keywords.
PolicyServiceRequests ==
    PolicyRequests \cup
    { [ pf_rate |-> Dec(12, 2), pf_cap |-> FromInt(1700),
        esi_employee_rate |-> Dec(1, 2), esi_threshold |-> FromInt(30000),
        pt_amount |-> FromInt(300), leave_encashment |-> FALSE,
        encash_max_days |-> FromInt(15), policy_text |-> NT_all_three ] }

\* create_or_update_policy(policy_data): the row is stored and then applied to
\* the agent of the service.
SvcCreateOrUpdatePolicy(policy_data) ==
    LET rows == create_or_update_policy(policy_rows, policy_data)
    IN  /\ Len(policy_rows) < MaxPolicyCalls
        /\ policy_rows' = rows
        /\ policies' = apply_policy_to_agent(policies, rows[Len(rows)])
        /\ last' = [ op |-> "create_or_update_policy", err |-> "none",
                     policy |-> rows[Len(rows)], before |-> policies ]
        /\ UNCHANGED <<data, pdf_dir, clock, users, employees, batches, payslips,
                       uploads, tokens, autoflush>>

PolicyServiceNext ==
    \/ NewPayrollService
    \/ \E policy_data \in PolicyServiceRequests : SvcCreateOrUpdatePolicy(policy_data)
    \/ SvcCreateOrUpdatePolicy(NullsRequest)
    \/ batches = <<>> /\ \E file \in PolicyServiceFiles : SvcUploadExcel(file, <<>>)
    \/ \E batch_id \in 1..(Len(batches) + 1) :
          \E nows \in Readings(clock, rows_to_read(data, batches, uploads, batch_id),
                                 MaxRequestNow) :
              SvcGenerateAllPayroll(batch_id, nows)
    \/ \E batch_id \in 1..(Len(batches) + 1) : SvcApprovePayroll(batch_id)
    \/ \E batch_id \in 1..(Len(batches) + 1) : SvcRegenerateSinglePayslip(T_E001, batch_id)

PolicyServiceSpec == Init /\ [][PolicyServiceNext]_vars

(***************************************************************************)
(* The engine's payslip operations: one PayrollAgent, loaded and asked for *)
(* payslips while the calendar moves on.                                   *)
(***************************************************************************)
T_e002 == <<"e","0","0","2">>
T_E00 == <<"E","0","0">>
\* E001 again, with other amounts.
RaisedRow1 == <<StrCell(T_E001), StrCell(T_Asha), StrCell(T_Clerk),
                IntCell(22000), IntCell(8000), IntCell(30000), IntCell(30), IntCell(0)>>
\* An employee id with a '/'.
T_E_2 == <<"E","/","2">>
SlashRow2 == <<StrCell(T_E_2), StrCell(T_Ravi), StrCell(T_Engineer),
               IntCell(9000), IntCell(6000), IntCell(15000), IntCell(30), IntCell(0)>>
PayslipFiles ==
    { Workbook(<<SalarySheet>>),
      Workbook(<<Sheet(N_Salary, SalaryColumns, <<RaisedRow1>>)>>),
      Workbook(<<Sheet(N_Salary, SalaryColumns, <<SalaryRow1, SlashRow2, SalaryRow3>>)>>),
      Workbook(<<SalarySheet, Sheet(N_Attendance, AttendanceColumns, <<AttendanceRow2>>)>>),
      Unreadable }
PayslipEmpIds == {T_e002, T_E00, T_E009}

GenerateSinglePayslip(emp_id) ==
    LET answered(r) ==
            /\ pdf_dir' = r.dir
            /\ last' = [ op |-> "generate_single_payslip", emp_id |-> emp_id,
                         err |-> r.err, result |-> r.result ]
            /\ UNCHANGED <<agentVars, clock, dbVars>>
    IN  answered(generate_single_payslip(data, policies, clock, pdf_dir, emp_id))

\* The month may end while the rows are computed.
GenerateAllPayslips(nows) ==
    LET answered(r) ==
            /\ pdf_dir' = r.dir
            /\ clock' = After(clock, nows)
            /\ last' = [ op |-> "generate_all_payslips", nows |-> nows, err |-> r.err,
                         results |-> r.results ]
            /\ UNCHANGED <<agentVars, dbVars>>
    IN  answered(generate_all_payslips(data, policies, nows, pdf_dir))

\* datetime.now() reaches the next month between two calls.
MonthEnds ==
    /\ clock < MaxNow
    /\ clock' = clock + 1
    /\ UNCHANGED <<agentVars, pdf_dir, dbVars, last>>

PayslipNext ==
    \/ \E file \in PayslipFiles : LoadUploadedExcel(file)
    \/ \E emp_id \in PayslipEmpIds : GenerateSinglePayslip(emp_id)
    \/ \E nows \in Readings(clock, RowCount(data), MaxNow) : GenerateAllPayslips(nows)
    \/ MonthEnds

PayslipSpec == AgentInit /\ [][PayslipNext]_vars

(***************************************************************************)
(* The policy of one PayrollAgent: set directly or changed by free-text    *)
(* notes.                                                                  *)
(***************************************************************************)
NT_cap2000 == <<"R","e","v","i","s","e","d"," ","p","f"," ","c","a","p"," ","2","0","0","0"," ","f","r","o","m"," ","A","p","r","i","l">>
NT_cap20000 == <<"p","f"," ","c","a","p"," ","2","0","0","0","0">>
NT_cap1500_then_2000 == <<"p","f"," ","c","a","p"," ","1","5","0","0"," ","n","o","w",","," ","p","f"," ","c","a","p"," ","2","0","0","0"," ","l","a","t","e","r">>
NT_CapUpper == <<"P","F"," ","C","a","p"," ","2","5","0","0">>
NT_pt250 == <<"P","T"," ","2","5","0"," ","i","n"," ","t","h","i","s"," ","s","t","a","t","e">>
NT_encash == <<"L","e","a","v","e"," ","E","n","c","a","s","h","m","e","n","t"," ","a","l","l","o","w","e","d">>
NT_none == <<"n","o"," ","c","h","a","n","g","e"," ","t","h","i","s"," ","m","o","n","t","h">>
NT_cap_no_number == <<"p","f"," ","c","a","p"," ","u","n","c","h","a","n","g","e","d">>
\* A form feed between the words and the number.
NT_cap_formfeed == <<"p","f"," ","c","a","p","\f","2","0","0","0">>
PolicyNotes ==
    { NT_cap2000, NT_cap20000, NT_cap1500_then_2000, NT_CapUpper, NT_pt250, NT_encash,
      NT_none, NT_cap_no_number, NT_cap_formfeed }

UpdatePolicy(policy_text) ==
    /\ policies' = update_policy(policies, policy_text)
    /\ last' = [ op |-> "update_policy", policy_text |-> policy_text,
                 before |-> policies, err |-> "none" ]
    /\ UNCHANGED <<data, pdf_dir, clock, dbVars>>

PolicyNext ==
    \/ \E new \in PolicyChoices : SetPoliciesDirect(new)
    \/ \E policy_text \in PolicyNotes : UpdatePolicy(policy_text)

PolicySpec == AgentInit /\ [][PolicyNext]_vars

(***************************************************************************)
(* Properties of the engine (checked under AgentSpec).                     *)
(***************************************************************************)
Calculated == last.op = "calculate_payroll"

\* The inputs of the formulas, read from the salary row of the last call.
InBasic == Float(get(last.emp_row, kw_basic_da, IntCell(0)))
InHra == Float(get(last.emp_row, kw_hra, IntCell(0)))
InOther == Float(get(last.emp_row, kw_other_allow, IntCell(0)))
InGross == Float(get(last.emp_row, kw_gross,
                     FloatCell(FloatAdd(FloatAdd(InBasic, InHra), InOther))))
InDays == ToInt(get(last.emp_row, kw_days_in_month, IntCell(31)))
InTds == Float(get(last.emp_row, kw_tds, IntCell(0)))
InEmpId == lower(Str(get(last.emp_row, kw_emp_id, StrCell(Unknown))))

\* The attendance rows that contain the employee id of the last call.
MatchingAttendance ==
    { i \in 1..Len(data.attendance.rows) :
        Contains(InEmpId, lower(StrValues(iloc(data.attendance, i)))) }
AbsentFromAttendance == empty(data.attendance) \/ MatchingAttendance = {}

\* C1: calculate_payroll never fails: whatever the row, the policy and the
\* attendance table, it returns a payroll result and raises nothing.
C1_NeverFails == Calculated => last.result.err = "none"

\* The amounts of the row are numbers (a blank cell is nan, numeral text with
\* "inf" infinite).
FiniteInputs ==
    IsFinite(InBasic) /\ IsFinite(InHra) /\ IsFinite(InOther) /\ IsFinite(InGross)
        /\ IsFinite(InTds)

\* gross / days * payable days, in the arithmetic of floats.
Prorated(payable_days) == FloatMul(FloatDiv(InGross, FromInt(InDays)), payable_days)

\* C2: with no matching attendance row the outputs are the reference formulas
\* (rounded as the result dict rounds them): prorated gross, pf capped by
\* pf_cap, esi up to the threshold, pt above 15000, total deductions,
\* encashment and net pay; and the worked example gives 1800/0/200/2000/26000.
C2_ReferenceFormulas ==
    (Calculated /\ last.result.err = "none" /\ FiniteInputs) =>
        LET r == last.result
            prorated == Prorated(FromInt(InDays))
            pf_raw == FloatMul(InBasic, policies.pf_rate)
            pf == IF FloatLe(pf_raw, policies.pf_cap) THEN pf_raw ELSE policies.pf_cap
            esi == IF FloatLe(prorated, policies.esi_threshold)
                   THEN FloatMul(prorated, policies.esi_employee_rate) ELSE FromInt(0)
            pt == IF FloatLt(FromInt(15000), prorated) THEN policies.pt_amount ELSE FromInt(0)
            total == FloatAdd(FloatAdd(FloatAdd(pf, esi), pt), InTds)
            days == IF FloatLe(FromInt(12), policies.encash_max_days)
                    THEN FromInt(12) ELSE policies.encash_max_days
            encash == IF policies.leave_encashment
                      THEN FloatMul(FloatDiv(FloatAdd(InBasic, InHra), FromInt(30)), days)
                      ELSE FromInt(0)
        IN  /\ r.gross = round(prorated, 2)
            /\ r.pf = round(pf, 2)
            /\ FloatLe(r.pf, policies.pf_cap)
            /\ r.esi = round(esi, 2)
            /\ r.pt = round(pt, 2)
            /\ r.tds = round(InTds, 2)
            /\ r.total_deductions = round(total, 2)
            /\ r.encashment = round(encash, 2)
            /\ r.net_pay = round(FloatAdd(FloatSub(prorated, total), encash), 2)
            /\ ( /\ InBasic = FromInt(20000) /\ InHra = FromInt(8000)
                 /\ InGross = FromInt(28000) /\ InDays = 30 /\ InTds = FromInt(0)
                 /\ policies = DefaultPolicies )
               => ( /\ r.pf = FromInt(1800) /\ r.esi = FromInt(0) /\ r.pt = FromInt(200)
                    /\ r.total_deductions = FromInt(2000) /\ r.net_pay = FromInt(26000) )

\* C2 witness: the worked example has been computed, with pf cut to the cap.
C2_Witness ==
    /\ Calculated /\ last.result.err = "none"
    /\ InBasic = FromInt(20000) /\ InGross = FromInt(28000) /\ InDays = 30
    /\ policies = DefaultPolicies
    /\ FloatLt(policies.pf_cap, FloatMul(InBasic, policies.pf_rate))
    /\ last.result.pf = FromInt(1800)
    /\ last.result.net_pay = FromInt(26000)

\* C3: the thresholds: a prorated gross equal to esi_threshold still carries
\* ESI, a prorated gross of exactly 15000 carries no professional tax, and
\* professional tax is charged exactly above 15000 under every policy.
C3_Boundaries ==
    (Calculated /\ last.result.err = "none") =>
        LET r == last.result
            prorated == Prorated(r.payable_days)
        IN  /\ FloatEq(prorated, policies.esi_threshold)
               => r.esi = round(FloatMul(prorated, policies.esi_employee_rate), 2)
            /\ FloatEq(prorated, FromInt(15000)) => r.pt = FromInt(0)
            /\ FloatLt(FromInt(15000), prorated) <=> r.pt # FromInt(0)

\* C3 witness: a prorated gross of 15000 under a policy whose ESI threshold is
\* 15000 too: ESI is charged and professional tax is not.
C3_Witness ==
    /\ Calculated /\ last.result.err = "none"
    /\ FloatEq(Prorated(last.result.payable_days), FromInt(15000))
    /\ policies.esi_threshold = FromInt(15000)
    /\ policies.pt_amount = FromInt(250)
    /\ FloatLt(FromInt(0), last.result.esi)
    /\ last.result.pt = FromInt(0)

\* C4: an employee absent from the attendance table (table empty, or no row
\* containing the id) is paid for the whole month: payable days are the days
\* in the month, no paid leave, 12 remaining leaves, hence the prorated gross
\* is the gross in full, and professional tax is that of the full gross; and
\* the days in the month are 31 when no column names them.
C4_AttendanceFallback ==
    (Calculated /\ AbsentFromAttendance /\ last.result.err = "none") =>
        LET r == last.result
        IN  /\ r.payable_days = FromInt(InDays)
            /\ r.present_days = FromInt(InDays)
            /\ r.approved_paid_leaves = FromInt(0)
            /\ r.remaining_leaves = FromInt(12)
            /\ r.gross = round(InGross, 2)
            /\ IsFinite(InGross) => FloatEq(Prorated(r.payable_days), InGross)
            /\ r.pt = IF FloatLt(FromInt(15000), InGross) THEN round(policies.pt_amount, 2)
                      ELSE FromInt(0)
            /\ (\A i \in 1..Len(last.emp_row.index) :
                    ~any_keyword_in(kw_days_in_month, last.emp_row.index[i]))
               => r.payable_days = FromInt(31)

\* C5: when attendance rows contain the employee id, the figures come from the
\* first such row (present, paid leave, LOP and remaining leaves resolved by
\* keyword), and payable days are present plus paid leave, LOP not subtracted.
C5_AttendanceMatch ==
    (Calculated /\ ~AbsentFromAttendance) =>
        LET first == CHOOSE i \in MatchingAttendance : \A j \in MatchingAttendance : i <= j
            att == iloc(data.attendance, first)
            present == Float(get(att, kw_present, IntCell(InDays)))
            leaves == Float(get(att, kw_paid_leaves, IntCell(0)))
            r == last.result
        IN  /\ r.err = "none"
            /\ r.present_days = round(present, 1)
            /\ r.approved_paid_leaves = round(leaves, 1)
            /\ r.lop_days = round(Float(get(att, kw_lop, IntCell(0))), 1)
            /\ r.remaining_leaves = round(Float(get(att, kw_remaining, IntCell(12))), 1)
            /\ r.payable_days = round(FloatAdd(present, leaves), 1)

\* C6: the resolver returns the value of the first column, in column order,
\* whose label contains some keyword (case-insensitively), and the default
\* exactly when no label contains a keyword.
C6_ColumnResolver ==
    last.op = "get" =>
        LET labels == last.emp_row.index
            Hit(i) == \E k \in 1..Len(last.col_keywords) :
                        Contains(lower(last.col_keywords[k]), lower(labels[i]))
            hits == {i \in 1..Len(labels) : Hit(i)}
        IN  /\ hits = {} => last.value = last.default
            /\ hits # {} =>
                 \E i \in hits : /\ \A j \in hits : i <= j
                                 /\ last.value = last.emp_row.vals[i]

\* C6 witness: the id keywords on a row where "ID Card" precedes "Emp Code":
\* the later keyword 'id' on the earlier column decides.
C6_Witness ==
    /\ last.op = "get"
    /\ last.col_keywords = kw_emp_id
    /\ last.emp_row.index = LooseColumns
    /\ last.value = last.emp_row.vals[2]
    /\ last.value # last.emp_row.vals[3]

(***************************************************************************)
(* Properties of the workbook loader (AgentSpec).                          *)
(***************************************************************************)
Loaded == last.op = "load_uploaded_excel"

\* A column label of the sheet contains one of the salary keywords.
LabelHasSalaryKeyword(sheet) ==
    \E i \in 1..Len(sheet.columns), k \in SalaryHeaders :
        Contains(k, lower(sheet.columns[i]))

SalaryByKeyword(sheets) == {i \in 1..Len(sheets) : LabelHasSalaryKeyword(sheets[i])}
AttendanceByName(sheets) == {i \in 1..Len(sheets) : is_attendance_sheet(sheets[i])}

\* C15: a load of a readable workbook succeeds exactly when some sheet has a
\* column label containing (case-insensitively) one of basic, hra, gross, ctc,
\* salary; the salary table is then such a sheet, the attendance table a sheet
\* whose name contains 'atten', and a workbook without one loads with an empty
\* attendance table.
C15_SheetQualification ==
    (Loaded /\ last.file.readable) =>
        LET sheets == last.file.sheets
        IN  /\ last.ok = (SalaryByKeyword(sheets) # {})
            /\ last.ok =>
                  /\ \E i \in SalaryByKeyword(sheets) : data.salary = read_frame(sheets[i])
                  /\ IF AttendanceByName(sheets) = {} THEN data.attendance = EmptyFrame
                     ELSE \E i \in AttendanceByName(sheets) :
                              data.attendance = read_frame(sheets[i])

SalaryQualifying(sheets) == {i \in 1..Len(sheets) : is_salary_sheet(sheets[i])}
LastOf(S) == CHOOSE i \in S : \A j \in S : j <= i

\* C16: after a successful load the salary table is the LAST sheet, in
\* workbook order, that qualifies as salary (one of its column labels
\* contains a salary keyword), and the attendance table the last sheet whose
\* name contains 'atten'; the two scans are independent, so both tables can
\* come from one sheet.
C16_LastSheetWins ==
    (Loaded /\ last.ok) =>
        LET sheets == last.file.sheets
        IN  /\ data.salary = read_frame(sheets[LastOf(SalaryByKeyword(sheets))])
            /\ AttendanceByName(sheets) # {} =>
                  data.attendance = read_frame(sheets[LastOf(AttendanceByName(sheets))])

\* The tables of a workbook loaded into a new agent.
TablesOf(sheets) ==
    [ salary |-> read_frame(sheets[LastOf(SalaryQualifying(sheets))]),
      attendance |-> IF AttendanceByName(sheets) = {} THEN EmptyFrame
                     ELSE read_frame(sheets[LastOf(AttendanceByName(sheets))]) ]

LoadReplaces ==
    last'.op = "load_uploaded_excel" =>
        /\ policies' = policies
        /\ IF last'.ok THEN data' = TablesOf(last'.file.sheets) ELSE data' = data

\* C17: a successful load replaces the agent's tables wholesale by those of the
\* workbook, whatever was loaded before (an empty attendance table when the
\* workbook has no attendance sheet); a failed load leaves the tables and the
\* policy as they were.
C17_WholesaleReplace == [][LoadReplaces]_vars

\* A workbook without attendance sheet has been loaded over tables with
\* attendance rows, and the attendance table is empty.
C17_Witness ==
    /\ Loaded /\ last.ok
    /\ last.before # <<>>
    /\ last.before.attendance.rows # <<>>
    /\ last.before.salary # data.salary
    /\ AttendanceByName(last.file.sheets) = {}
    /\ data.attendance = EmptyFrame

(***************************************************************************)
(* Properties of the portal (checked under Spec).                          *)
(***************************************************************************)
EmployeeOfApprovedBatch(emp_id) ==
    \E e \in Range(employees) :
        e.emp_id = emp_id /\ batches[e.batch_id].status = "APPROVED"

KnownEmpIds == EmpIds \cup {e.emp_id : e \in Range(employees)}

ReadOps == {"get_my_payslip", "download_my_payslip", "get_payslip_with_auth"}

\* C7: a token is issued to a user with role EMPLOYEE only if the user's
\* can_login is true and a batch containing that employee has been approved,
\* and a login of an active HR user with the correct password gets a token.
C7_LoginGating ==
    /\ \A email \in tokens :
          LET user == user_by_email(users, email)
          IN  /\ user.id # 0
              /\ user.role = "EMPLOYEE" =>
                    user.can_login /\ EmployeeOfApprovedBatch(user.emp_id)
    /\ last.op = "login" =>
          LET user == user_by_email(users, last.email)
          IN  IF user.id = 0 THEN last.status = 401
              ELSE /\ last.status = 200 => last.email \in tokens
                   /\ ( /\ user.role = "HR"
                        /\ user.is_active
                        /\ verify_password(last.password, user.password_hash) )
                      => last.status = 200

C7_Witness ==
    /\ last.op = "login"
    /\ last.status = 200
    /\ user_by_email(users, last.email).id # 0
    /\ user_by_email(users, last.email).role = "EMPLOYEE"
    /\ \E b \in Range(batches) : b.status # "APPROVED"

\* C8: get_employee_payslip returns only payslips of APPROVED batches, and
\* nothing for an employee none of whose batches is approved; so does every
\* employee-facing payslip endpoint.
C8_ApprovedOnly ==
    /\ \A emp_id \in KnownEmpIds :
          /\ \A p \in get_employee_payslip(batches, payslips, emp_id) :
                p.emp_id = emp_id /\ batches[p.batch_id].status = "APPROVED"
          /\ ~EmployeeOfApprovedBatch(emp_id) =>
                get_employee_payslip(batches, payslips, emp_id) = {}
    /\ (last.op \in ReadOps /\ last.status = 200) =>
          /\ last.payslip \in payslips
          /\ batches[last.payslip.batch_id].status = "APPROVED"

C8_Witness ==
    /\ last.op = "get_my_payslip"
    /\ last.status = 200
    /\ \E p \in payslips : batches[p.batch_id].status = "GENERATED"

\* C9: require_hr_or_own_data refuses every EMPLOYEE asking for another emp_id
\* and accepts every HR user; an employee's request for another emp_id ends
\* with 403, and every payslip an employee is given is the caller's own.
C9_OwnData ==
    /\ \A u \in Range(users), emp_id \in KnownEmpIds :
          /\ (u.role = "EMPLOYEE" /\ u.emp_id # emp_id) => ~require_hr_or_own_data(u, emp_id)
          /\ u.role = "HR" => require_hr_or_own_data(u, emp_id)
    /\ last.op \in ReadOps =>
          LET current_user == user_by_email(users, last.caller)
          IN  /\ ( /\ last.op = "get_payslip_with_auth"
                   /\ current_user.role = "EMPLOYEE"
                   /\ last.emp_id # current_user.emp_id ) => last.status = 403
              /\ (last.status = 200 /\ current_user.role = "EMPLOYEE") =>
                    last.payslip.emp_id = current_user.emp_id

C9_Witness ==
    /\ last.op = "get_payslip_with_auth"
    /\ user_by_email(users, last.caller).role = "EMPLOYEE"
    /\ last.emp_id # user_by_email(users, last.caller).emp_id
    /\ get_employee_payslip(batches, payslips, last.emp_id) # {}
    /\ last.status = 403

\* approve_payroll on the tables of the state, with the status of batch
\* batch_id replaced by status, raises ValueError and changes nothing.
ApproveRefused(batch_id, status) ==
    LET db_batches == IF batch_id \in 1..Len(batches)
                      THEN [batches EXCEPT ![batch_id].status = status] ELSE batches
        r == approve_payroll(users, employees, db_batches, payslips, batch_id,
                             HrAdmin.id, autoflush, clock)
    IN  /\ r.err = "ValueError"
        /\ r.users = users
        /\ r.batches = db_batches
        /\ r.payslips = payslips

\* A step of POST /api/approve-payroll: it succeeds only on a GENERATED batch,
\* and on any other it answers 400 (or 403 to a caller who is not HR) and
\* leaves users, batches and payslips as they were.
ApproveStepGuarded ==
    (last'.op = "approve_payroll" /\ last'.batch_id # 0) =>
        LET before == batch_by_id(batches, last'.batch_id)
            generated == IF before.id = 0 THEN FALSE ELSE before.status = "GENERATED"
        IN  /\ last'.status = 200 =>
                /\ generated
                /\ batches'[last'.batch_id].status = "APPROVED"
            /\ ~generated =>
                /\ last'.status \in {400, 403}
                /\ UNCHANGED <<users, employees, batches, payslips>>

\* C10: approve_payroll succeeds only on an existing batch whose status is
\* GENERATED; on a missing, DRAFT, APPROVED or REJECTED batch it raises
\* ValueError and leaves batch status, approved_by/approved_at, every can_login
\* flag and every payslip's user link unchanged.
C10_ApproveOnlyGenerated ==
    /\ [](\A batch_id \in 1..(Len(batches) + 1) :
            \A status \in {"DRAFT", "APPROVED", "REJECTED"} :
                ApproveRefused(batch_id, status))
    /\ [][ApproveStepGuarded]_vars

C10_Witness ==
    /\ last.op = "approve_payroll"
    /\ last.status = 400
    /\ batch_by_id(batches, last.batch_id).id # 0
    /\ batch_by_id(batches, last.batch_id).status = "DRAFT"
    /\ user_by_email(users, last.caller).role = "HR"

\* generate_all_payroll on an APPROVED batch of the state raises the
\* 'already approved' ValueError and leaves every table and the payslip
\* directory as they were.
GenerateRefusedOnApproved ==
    \A batch_id \in 1..Len(batches) :
        batches[batch_id].status = "APPROVED" =>
            LET r == generate_all_payroll(<<>>, DefaultPolicies, policy_rows, employees,
                                          batches, payslips, uploads, pdf_dir, batch_id,
                                          Steady(clock, rows_to_read(<<>>, batches, uploads,
                                                                     batch_id)),
                                          clock)
            IN  /\ r.err = "ValueError"
                /\ r.detail = "Batch already approved. Cannot regenerate."
                /\ r.batches = batches
                /\ r.payslips = payslips
                /\ r.dir = pdf_dir

\* A step never changes the row of an APPROVED batch, and a generate request
\* on an APPROVED batch answers 400 and leaves the payslips as they were.
ApprovedStaysApproved ==
    /\ \A batch_id \in 1..Len(batches) :
          batches[batch_id].status = "APPROVED" => batches'[batch_id] = batches[batch_id]
    /\ ( /\ last'.op = "generate_all_payroll"
         /\ get_current_hr_status(users, last'.caller) = 200
         /\ last'.batch_id \in 1..Len(batches)
         /\ batches[last'.batch_id].status = "APPROVED" )
       => (last'.status = 400 /\ UNCHANGED <<batches, payslips, pdf_dir>>)

\* C11: generate_all_payroll on an APPROVED batch raises 'Batch already
\* approved. Cannot regenerate.' before touching anything (status,
\* total_amount and stored payslips unchanged), and once a batch is APPROVED
\* no generate or approve call changes its status again.
C11_ApprovedIsFinal ==
    /\ []GenerateRefusedOnApproved
    /\ [][ApprovedStaysApproved]_vars

C11_Witness ==
    /\ last.op = "generate_all_payroll"
    /\ last.status = 400
    /\ batch_by_id(batches, last.batch_id).id # 0
    /\ batch_by_id(batches, last.batch_id).status = "APPROVED"
    /\ \E p \in payslips : p.batch_id = last.batch_id

\* C12: generate_all_payroll generates and stores payslips only for a DRAFT
\* batch: on a batch that is GENERATED, REJECTED or APPROVED it is refused
\* with a ValueError and stores nothing.
C12_GenerateOnlyDraft ==
    \A batch_id \in 1..Len(batches) :
        batches[batch_id].status # "DRAFT" =>
            LET r == generate_all_payroll(<<>>, DefaultPolicies, policy_rows, employees,
                                          batches, payslips, uploads, pdf_dir, batch_id,
                                          Steady(clock, rows_to_read(<<>>, batches, uploads,
                                                                     batch_id)),
                                          clock)
            IN  /\ r.err = "ValueError"
                /\ r.batches = batches
                /\ r.payslips = payslips

\* C13: after a successful approve_payroll the batch is APPROVED with
\* approved_by and approved_at set, every employee of the batch has a user
\* with the same emp_id and can_login true, employees_enabled is the number
\* of employees of the batch, and each of their payslips in the batch has
\* user_id equal to that user's id.
C13_ApprovePostcondition ==
    \A batch_id \in 1..Len(batches) :
        LET r == approve_payroll(users, employees, batches, payslips, batch_id,
                                 HrAdmin.id, autoflush, clock)
            batch_employees == {e \in Range(employees) : e.batch_id = batch_id}
        IN  r.err = "none" =>
              /\ r.batches[batch_id].status = "APPROVED"
              /\ r.batches[batch_id].approved_by = HrAdmin.id
              /\ r.batches[batch_id].approved_at # <<>>
              /\ r.employees_enabled = Cardinality(batch_employees)
              /\ \A e \in batch_employees :
                    LET user == user_by_emp_id(r.users, e.emp_id)
                    IN  /\ user.id # 0
                        /\ user.can_login
                        /\ \A p \in r.payslips :
                              (p.batch_id = batch_id /\ p.emp_id = e.emp_id)
                                 => p.user_id = user.id


(***************************************************************************)
(* Properties of PayrollService called directly (ServiceSpec).             *)
(***************************************************************************)
LoadingOps == {"upload_excel", "generate_all_payroll", "regenerate_single_payslip"}

\* C14: a failed workbook load is surfaced as a failure: when the file that
\* upload_excel, generate_all_payroll or regenerate_single_payslip loads cannot
\* be parsed or has no qualifying salary sheet, the operation fails instead of
\* going on to compute.
C14_LoadFailureSurfaced ==
    (last.op \in LoadingOps /\ last.loaded = "failed") => last.err # "none"

EmployeesOf(rows, batch_id) == {i \in 1..Len(rows) : rows[i].batch_id = batch_id}

UploadAtomic ==
    last'.op = "upload_excel" =>
        IF last'.err = "none"
        THEN /\ Len(batches') = Len(batches) + 1
             /\ SubSeq(batches', 1, Len(batches)) = batches
             /\ batches'[Len(batches')].status = "DRAFT"
             /\ SubSeq(employees', 1, Len(employees)) = employees
             /\ Len(employees') = Len(employees) + Len(data'.salary.rows)
             /\ EmployeesOf(employees', Len(batches')) = (Len(employees) + 1)..Len(employees')
             /\ batches'[Len(batches')].total_employees = Len(data'.salary.rows)
        ELSE batches' = batches /\ employees' = employees

\* C26: upload_excel either succeeds, and the database then holds one new
\* DRAFT batch, one Employee row of that batch per loaded salary row, and that
\* count as total_employees; or it fails, and then neither a new batch row nor
\* a new employee row remains.
C26_UploadAtomic == [][UploadAtomic]_vars


(***************************************************************************)
(* Properties of the payslip operations (PayslipSpec).                     *)
(***************************************************************************)
SalaryRowAt(i) == iloc(data.salary, i)

\* What computing and rendering salary row i returns when nothing fails, the
\* clock being read at now.
RowPayslipAt(i, now) ==
    with_pdf_path(calculate_payroll(data, policies, SalaryRowAt(i), now),
                  payslip_path(calculate_payroll(data, policies, SalaryRowAt(i), now)))
RowPayslip(i) == RowPayslipAt(i, clock)

\* The step is a call of op: a step in which only the month ends leaves the
\* record of the last call as it was.
Called(op) == last'.op = op /\ (clock' = clock \/ last' # last)

SingleDone ==
    (Called("generate_single_payslip") /\ "salary" \in DOMAIN data) =>
        /\ data' = data /\ policies' = policies
        /\ IF salary_match(data.salary, last'.emp_id) = <<>>
           THEN last'.err = "ValueError" /\ pdf_dir' = pdf_dir
           ELSE LET i == Head(salary_match(data.salary, last'.emp_id))
                IN  /\ last'.err = "none"
                    /\ last'.result = RowPayslip(i)
                    /\ last'.result.pdf_path \in DOMAIN pdf_dir'

\* C18: generate_single_payslip(emp_id) fails with the not-found error, writes
\* no document and changes neither tables nor policy when no salary row's
\* stringified cells contain emp_id (case-insensitively); otherwise it returns
\* the result of the FIRST matching row, with the path of its document.
C18_SinglePayslip == [][SingleDone]_vars


\* Computing salary row i raises, or rendering what was computed does, the
\* clock being read at now.
RowFails(i, now) ==
    \/ calculate_payroll(data, policies, SalaryRowAt(i), now).err # "none"
    \/ open_error(PAYSLIP_DIR, {},
                  payslip_filename(calculate_payroll(data, policies, SalaryRowAt(i), now)))
           # "none"

\* The salary rows whose computation or rendering raises, the clock being
\* read as in nows.
FailingRows(nows) == {i \in 1..Len(data.salary.rows) : RowFails(i, nows[i])}
FirstOf(S) == CHOOSE i \in S : \A j \in S : i <= j

\* The documents a step wrote or rewrote.
Written == {p \in DOMAIN pdf_dir' : p \notin DOMAIN pdf_dir \/ pdf_dir'[p] # pdf_dir[p]}

AllDone ==
    (Called("generate_all_payslips") /\ "salary" \in DOMAIN data) =>
        IF FailingRows(last'.nows) = {}
        THEN /\ last'.err = "none"
             /\ Len(last'.results) = Len(data.salary.rows)
             /\ \A i \in 1..Len(data.salary.rows) :
                   /\ last'.results[i] = RowPayslipAt(i, last'.nows[i])
                   /\ last'.results[i].pdf_path \in DOMAIN pdf_dir'
        ELSE /\ last'.err # "none"
             /\ last'.results = <<>>
             /\ \A p \in Written :
                   \E i \in 1..(FirstOf(FailingRows(last'.nows)) - 1) :
                       p = RowPayslipAt(i, last'.nows[i]).pdf_path

\* C19: generate_all_payslips returns one result per salary row, in table
\* order, each with its document path; when computing or rendering row k
\* fails it raises, returns no results, and no row after k is computed or
\* rendered (the only documents written are those of the rows before k).
C19_AllOrNothing == [][AllDone]_vars

\* generate_all_payslips has failed in rendering the second of three rows,
\* which was computed: nothing is returned, the first row's document is
\* written, the second's and the third's are not.
C19_Witness ==
    /\ last.op = "generate_all_payslips"
    /\ last.err = "FileNotFoundError"
    /\ last.results = <<>>
    /\ Len(data.salary.rows) = 3
    /\ FailingRows(last.nows) = {2}
    /\ calculate_payroll(data, policies, SalaryRowAt(2), last.nows[2]).err = "none"
    /\ RowPayslipAt(1, last.nows[1]).pdf_path \in DOMAIN pdf_dir
    /\ RowPayslipAt(2, last.nows[2]).pdf_path \notin DOMAIN pdf_dir
    /\ RowPayslipAt(3, last.nows[3]).pdf_path \notin DOMAIN pdf_dir


SameAgain ==
    ( /\ last.op = "generate_single_payslip"
      /\ last'.op = "generate_single_payslip"
      /\ last'.emp_id = last.emp_id ) =>
        /\ last'.err = last.err
        /\ last'.result = last.result
        /\ data' = data /\ policies' = policies

\* C20: generate_single_payslip called again for the same employee id, with
\* the tables and the policy of the first call, returns the same value in
\* every field, month label and document path included, and leaves tables and
\* policy as they were.
C20_Idempotent == [][SameAgain]_vars


\* The name the claim gives the statement of an employee and a month.
StatementPath(emp_id, month) ==
    PAYSLIP_DIR \o <<"/">> \o <<"p","a","y","s","l","i","p","_">> \o emp_id \o <<"_">>
        \o Replace(month, " ", "_") \o <<".","p","d","f">>

\* The content of the document rendered for a returned result.
Rendered(result) == [f \in (DOMAIN result) \ {"pdf_path"} |-> result[f]]

LatestAt(result) ==
    /\ result.pdf_path = StatementPath(result.emp_id, result.month)
    /\ result.pdf_path \in DOMAIN pdf_dir
    /\ pdf_dir[result.pdf_path] = Rendered(result)

\* C21: every document lies at the path given by its employee id and month
\* label alone (spaces of the month as underscores, under the payslip
\* directory), so there is one document per employee id and month, and after
\* a render it holds the result rendered last.
C21_StatementNaming ==
    /\ \A p \in DOMAIN pdf_dir : p = StatementPath(pdf_dir[p].emp_id, pdf_dir[p].month)
    /\ (last.op = "generate_single_payslip" /\ last.err = "none") => LatestAt(last.result)
    /\ (last.op = "generate_all_payslips" /\ last.err = "none") =>
          \A i \in 1..Len(last.results) :
              (\A j \in (i + 1)..Len(last.results) :
                   last.results[j].pdf_path # last.results[i].pdf_path)
                  => LatestAt(last.results[i])

\* E001's statement of a month has been rendered from the first workbook (the
\* statement of E003 of that month exists) and again from the workbook with
\* the raised amounts, whose result it now holds.
C21_Witness ==
    /\ last.op = "generate_single_payslip" /\ last.err = "none"
    /\ last.result.emp_id = T_E001
    /\ last.result.basic_da = FromInt(22000)
    /\ StatementPath(T_E003, last.result.month) \in DOMAIN pdf_dir
    /\ pdf_dir[StatementPath(T_E001, last.result.month)].basic_da = FromInt(22000)


(***************************************************************************)
(* Properties of the policy notes (PolicySpec).                            *)
(***************************************************************************)
Noted == last.op = "update_policy"
NoteText == lower(last.policy_text)

EncashPhrase(text) ==
    \/ Contains(<<"e","n","c","a","s","h">>, text)
    \/ Contains(<<"l","e","a","v","e"," ","e","n","c","a","s","h","m","e","n","t">>, text)
PtPhrase(text) == Contains(<<"p","t"," ","2","5","0">>, text)
T_pf_cap_2000 == <<"p","f"," ","c","a","p"," ","2","0","0","0">>
T_2000 == <<"2","0","0","0">>

Unrecognised(text) == ~EncashPhrase(text) /\ ~PtPhrase(text) /\ pf_match(text) = <<>>

\* C22: notes that contain 'pf cap 2000' and no other trigger phrase set pf_cap
\* to 2000 and change no other field; notes with no recognised pattern leave
\* the policy as it was; update_policy never raises.
C22_NoteFrame ==
    Noted =>
        /\ last.err = "none"
        /\ (Contains(T_pf_cap_2000, NoteText) /\ ~EncashPhrase(NoteText) /\ ~PtPhrase(NoteText))
              => policies = [last.before EXCEPT !.pf_cap = FromInt(2000)]
        /\ Unrecognised(NoteText) => policies = last.before

\* C22, amended: notes in which the first 'pf cap' that is followed by a number
\* is followed by 2000, and which hold no other trigger phrase, set pf_cap to
\* 2000 and change no other field; notes with no recognised pattern leave the
\* policy as it was; update_policy never raises.
C22_NoteFrameFirstCap ==
    Noted =>
        /\ last.err = "none"
        /\ (pf_match(NoteText) = T_2000 /\ ~EncashPhrase(NoteText) /\ ~PtPhrase(NoteText))
              => policies = [last.before EXCEPT !.pf_cap = FromInt(2000)]
        /\ Unrecognised(NoteText) => policies = last.before

\* Notes with 'pf cap 2000' have been applied to a policy with another cap and
\* fields that differ from the defaults.
C22_Witness ==
    /\ Noted
    /\ pf_match(NoteText) = T_2000
    /\ last.before.pf_cap # FromInt(2000)
    /\ last.before.pt_amount = FromInt(250)
    /\ last.before.leave_encashment
    /\ policies.pf_cap = FromInt(2000)


\* The two notes carry different 'pf cap <n>'.
CapsDiffer(a, b) ==
    /\ pf_match(lower(a)) # <<>>
    /\ pf_match(lower(b)) # <<>>
    /\ StrToInt(pf_match(lower(a))) # StrToInt(pf_match(lower(b)))

\* C23: applied to the policy of any reachable state, two notes give the same
\* policy in either order, unless they carry different 'pf cap <n>', and then
\* the orders differ in pf_cap alone and the note applied last gives it; a
\* note applied twice gives what it gives applied once; and no note turns
\* leave_encashment off.
C23_NotesCommute ==
    \A a \in PolicyNotes :
        /\ update_policy(update_policy(policies, a), a) = update_policy(policies, a)
        /\ policies.leave_encashment => update_policy(policies, a).leave_encashment
        /\ \A b \in PolicyNotes :
              LET ab == update_policy(update_policy(policies, a), b)
                  ba == update_policy(update_policy(policies, b), a)
              IN  IF CapsDiffer(a, b)
                  THEN /\ ab = [ba EXCEPT !.pf_cap = FromInt(StrToInt(pf_match(lower(b))))]
                       /\ ab.pf_cap # ba.pf_cap
                  ELSE ab = ba

\* Two notes with different caps have been applied one after the other to a
\* policy with leave encashment on: the cap is the second note's, and leave
\* encashment is still on.
C23_Witness ==
    /\ Noted
    /\ last.before.pf_cap = FromInt(20000)
    /\ last.before.leave_encashment
    /\ pf_match(NoteText) = T_2000
    /\ policies.pf_cap = FromInt(2000)
    /\ policies.leave_encashment


(***************************************************************************)
(* Properties of the stored policy (PolicyServiceSpec).                    *)
(***************************************************************************)
PolicyFields ==
    { "pf_rate", "pf_cap", "esi_employee_rate", "esi_threshold", "pt_amount",
      "leave_encashment", "encash_max_days" }

\* The value a Policy row gives a field: the note's where the row's
\* policy_text overrides the field, the structured one otherwise.
FieldOf(row, f) ==
    LET text == lower(row.policy_text)
    IN  IF f = "leave_encashment" /\ EncashPhrase(text) THEN TRUE
        ELSE IF f = "pt_amount" /\ PtPhrase(text) THEN FromInt(250)
        ELSE IF f = "pf_cap" /\ pf_match(text) # <<>> THEN FromInt(StrToInt(pf_match(text)))
        ELSE row[f]

PolicyApplied == last.op = "create_or_update_policy"

\* C24: after a Policy row has been applied to the agent (by
\* create_or_update_policy, or by a generate_all_payroll that got past its
\* checks while a policy is active), every field of the agent's policy is the
\* row's structured field, or the note's value where the row's policy_text
\* overrides it; nothing of the agent's earlier policy is left.
C24_StructuredThenNotes ==
    /\ PolicyApplied => \A f \in PolicyFields : policies[f] = FieldOf(last.policy, f)
    /\ (last.op = "generate_all_payroll" /\ last.err = "none"
            /\ get_active_policy(policy_rows).id # 0)
          => \A f \in PolicyFields : policies[f] = FieldOf(get_active_policy(policy_rows), f)

\* A row with notes has been applied to an agent that held an earlier policy:
\* the notes have overridden three structured fields of the row, and the other
\* fields are the row's, not the earlier policy's.
C24_Witness ==
    /\ PolicyApplied
    /\ last.before # DefaultPolicies
    /\ last.before.pf_rate # last.policy.pf_rate
    /\ last.before.esi_threshold # last.policy.esi_threshold
    /\ policies.pf_rate = last.policy.pf_rate
    /\ policies.pf_cap # last.policy.pf_cap
    /\ policies.pt_amount # last.policy.pt_amount
    /\ policies.leave_encashment /\ ~last.policy.leave_encashment


PayslipsOf(rows, batch_id) == {p \in rows : p.batch_id = batch_id}

ApprovedPayslipsKept ==
    \A batch_id \in 1..Len(batches) :
        batches[batch_id].status = "APPROVED" =>
            PayslipsOf(payslips', batch_id) = PayslipsOf(payslips, batch_id)

\* C25: once a batch is APPROVED, no service operation changes a stored field
\* of a payslip of that batch, nor adds or removes one.
C25_ApprovedPayslipsImmutable == [][ApprovedPayslipsKept]_vars

ActiveRows == {i \in 1..Len(policy_rows) : policy_rows[i].is_active}
LatestPolicy == policy_rows[Len(policy_rows)]

\* C27: before the first create_or_update_policy no Policy row is active and
\* the agent holds pf_rate 0.12, pf_cap 1800, esi rate 0.0075, esi threshold
\* 21000, pt 200, encashment off and at most 10 days; after any number of
\* calls exactly one row is active, it is the row of the most recent call,
\* get_active_policy returns it, and a generate_all_payroll that got past its
\* checks has left the agent with that row's policy.
C27_SingleActivePolicy ==
    IF policy_rows = <<>>
    THEN /\ get_active_policy(policy_rows) = NoRow
         /\ policies = [ pf_rate |-> Dec(12, 2), pf_cap |-> FromInt(1800),
                         esi_employee_rate |-> Dec(75, 4),
                         esi_threshold |-> FromInt(21000), pt_amount |-> FromInt(200),
                         leave_encashment |-> FALSE, encash_max_days |-> FromInt(10) ]
         /\ request_policies(policies, policy_rows) = policies
    ELSE /\ ActiveRows = {Len(policy_rows)}
         /\ LatestPolicy.id = Len(policy_rows)
         /\ get_active_policy(policy_rows) = LatestPolicy
         /\ (last.op = "generate_all_payroll" /\ last.err = "none")
               => \A f \in PolicyFields : policies[f] = FieldOf(LatestPolicy, f)

\* Two policies have been set one after the other, they differ in pf_cap, and
\* a payroll has been generated since: the agent holds the second one's cap.
C27_Witness ==
    /\ Len(policy_rows) = 2
    /\ policy_rows[1].pf_cap # policy_rows[2].pf_cap
    /\ FieldOf(policy_rows[1], "pf_cap") # FieldOf(policy_rows[2], "pf_cap")
    /\ last.op = "generate_all_payroll" /\ last.err = "none"
    /\ policies.pf_cap = FieldOf(policy_rows[2], "pf_cap")

=============================================================================
